---- MODULE Spec2Model ----
(***************************************************************************)
(* A model of the solana-meme-detector token enrichment and scoring        *)
(* pipeline: the trust scorer (app/services/trust_scorer.py), the          *)
(* rate-limited upstream calls and the three source clients                *)
(* (app/services/dex_screener.py, helius.py, solana_rpc.py) and the two    *)
(* request handlers (app/routers/detector.py).                             *)
(*                                                                         *)
(* Units.  Percentages are integers in hundredths of a percent (9000 is    *)
(* 90.0 %, 8999 is 89.99 %).  A token's age is an integer number of        *)
(* minutes; the handlers pass age_hours = age_minutes / 60 to the scorer,  *)
(* so "age_hours >= h" is "age_minutes >= 60 * h".  Weighted scores are    *)
(* integers in hundredths of a point.                                      *)
(***************************************************************************)
EXTENDS Integers, Sequences, FiniteSets, TLC

VARIABLES
    scPc,       \* scorer harness: "idle", "scored" (one call made), "rescored" (two)
    scIn,       \* the five inputs of the calculate_trust_score call
    scOut,      \* what the first call returned
    scOut2,     \* what the second call with the same inputs returned
    rlCall,     \* rate-limited call under way: which of the four functions
    rlPc,       \* "idle", "request" (about to send), "sleeping" (in asyncio.sleep), "done"
    rlAttempt,  \* the loop variable of "for attempt in range(3)"
    rlLog,      \* the upstream responses received so far, in order
    rlSleeps,   \* the backoff sleeps taken so far, in seconds, in order
    rlResult,   \* how the call ended: returned a value, or raised
    now,        \* the clock, in seconds
    ticks,      \* how many times the clock was advanced
    metadata_cache, \* helius.py metadata_cache: address -> [value, expires, src]
    mtPc,       \* get_token_metadata: "idle", "fetching" (awaiting _get_account_info), "done"
    mtAddr,     \* its mint_address
    mtResult,   \* how it ended: [kind |-> "return", value, src, hit] or [kind |-> "raise", src]; src is the last upstream exchange
    mtRequests, \* upstream requests sent by the call under way
    token_cache,    \* dex_screener.py token_cache: <<limit, min_liquidity>> -> [tokens, cached_at, expires]
    holder_cache,   \* solana_rpc.py holder_cache: address -> [value, expires]
    upstream,       \* what upstream answers to the request: [boosted, profiles, pairs, onchain]
    rqPc,       \* request handler: "idle", "ready" (a request can arrive), "done"
    rq,         \* the request: [method, limit, min_liquidity] as the client sent them
    rqCandidates,   \* tokens_data: what get_latest_solana_tokens handed to the handler
    rqResponse, \* the response: [kind |-> "tokens" | "empty" | "error", ...]
    glPc,       \* get_latest_solana_tokens of each caller: "idle", "fetching", "done"
    glCall,     \* the call of each caller: [limit, min_liquidity, key, at, writes_before,
                \* during]; during holds the callers whose present call, for the same
                \* key, was or is under way together with this one
    glOut,      \* what the call of each caller returned
    glWrites,   \* history: the writes to token_cache, in order
    glCalls,    \* how many calls were made
    fnPc,       \* a single call of one function of a client: "idle", "done"
    fnIn,       \* its arguments, and what upstream answers during the call
    fnOut       \* what it returned, or that it raised

scorerVars == <<scPc, scIn, scOut, scOut2>>
retryVars == <<rlCall, rlPc, rlAttempt, rlLog, rlSleeps, rlResult>>
clockVars == <<now, ticks>>
mintVars == <<metadata_cache, mtPc, mtAddr, mtResult, mtRequests>>
cacheVars == <<token_cache, holder_cache>>
requestVars == <<upstream, rqPc, rq, rqCandidates, rqResponse>>
marketVars == <<glPc, glCall, glOut, glWrites, glCalls>>
callVars == <<fnPc, fnIn, fnOut>>

vars == <<scPc, scIn, scOut, scOut2, rlCall, rlPc, rlAttempt, rlLog, rlSleeps, rlResult,
          now, ticks, metadata_cache, mtPc, mtAddr, mtResult, mtRequests,
          token_cache, holder_cache, upstream, rqPc, rq, rqCandidates, rqResponse,
          glPc, glCall, glOut, glWrites, glCalls, fnPc, fnIn, fnOut>>

\* the variables an operation of one component leaves alone
notScorer == <<retryVars, clockVars, mintVars, cacheVars, requestVars, marketVars, callVars>>
notRetry == <<scorerVars, clockVars, mintVars, cacheVars, requestVars, marketVars, callVars>>
notMint == <<scorerVars, retryVars, cacheVars, requestVars, marketVars, callVars>>
notRequest ==
    <<scorerVars, retryVars, mtPc, mtAddr, mtResult, mtRequests, marketVars, callVars>>
notMarket == <<scorerVars, retryVars, mintVars, holder_cache, requestVars, callVars>>
notCall == <<scorerVars, retryVars, mintVars, cacheVars, requestVars, marketVars>>

None == "None"

-----------------------------------------------------------------------------
(* The state after the module-level objects are constructed: no call made, *)
(* the caches empty.                                                       *)

ScorerIdle ==
    /\ scPc = "idle"
    /\ scIn = None
    /\ scOut = None
    /\ scOut2 = None

RetryIdle ==
    /\ rlCall = None
    /\ rlPc = "idle"
    /\ rlAttempt = 0
    /\ rlLog = <<>>
    /\ rlSleeps = <<>>
    /\ rlResult = None

ClockIdle ==
    /\ now = 0
    /\ ticks = 0

MintIdle ==
    /\ metadata_cache = <<>>
    /\ mtPc = "idle"
    /\ mtAddr = None
    /\ mtResult = None
    /\ mtRequests = 0

CachesIdle ==
    /\ token_cache = <<>>
    /\ holder_cache = <<>>

RequestIdle ==
    /\ upstream = None
    /\ rqPc = "idle"
    /\ rq = None
    /\ rqCandidates = <<>>
    /\ rqResponse = None

MarketIdle ==
    /\ glPc = [c \in {"c1", "c2"} |-> "idle"]
    /\ glCall = [c \in {"c1", "c2"} |-> None]
    /\ glOut = [c \in {"c1", "c2"} |-> None]
    /\ glWrites = <<>>
    /\ glCalls = 0

CallIdle ==
    /\ fnPc = "idle"
    /\ fnIn = None
    /\ fnOut = None

Init ==
    /\ ScorerIdle /\ RetryIdle /\ ClockIdle /\ MintIdle /\ CachesIdle /\ RequestIdle
    /\ MarketIdle /\ CallIdle

-----------------------------------------------------------------------------
(* Bounds of the model.                                                    *)

\* Inputs are sampled this many hundredths (minutes) either side of each threshold.
Delta == 1

-----------------------------------------------------------------------------
(* TrustScorer (trust_scorer.py).                                          *)

WEIGHT_MINT_AUTHORITY == 25
WEIGHT_FREEZE_AUTHORITY == 20
WEIGHT_LP_LOCKED == 25
WEIGHT_HOLDER_CONCENTRATION == 20
WEIGHT_TOKEN_AGE == 10

\* scores["mint_authority"], scores["freeze_authority"]
AuthorityScore(enabled) == IF enabled THEN 0 ELSE 100

\* (mutant) the 90 % band taken exclusive of its bound
LpLockedScore_Exclusive90(pct) ==
    IF pct > 9000 THEN 100
    ELSE IF pct >= 8000 THEN 85
    ELSE IF pct >= 6000 THEN 60
    ELSE IF pct >= 4000 THEN 40
    ELSE IF pct >= 2000 THEN 20
    ELSE 0

\* (mutant) no band between 80 and 90 %
LpLockedScore_NoBand80(pct) ==
    IF pct >= 9000 THEN 100
    ELSE IF pct >= 6000 THEN 60
    ELSE IF pct >= 4000 THEN 40
    ELSE IF pct >= 2000 THEN 20
    ELSE 0

\* scores["lp_locked"]; pct in hundredths of a percent
LpLockedScore(pct) ==
    IF pct >= 9000 THEN 100
    ELSE IF pct >= 8000 THEN 85
    ELSE IF pct >= 6000 THEN 60
    ELSE IF pct >= 4000 THEN 40
    ELSE IF pct >= 2000 THEN 20
    ELSE 0

\* (mutant) the band up to 50 % scored half way
HolderScore_HalfWay(pct) ==
    IF pct <= 2000 THEN 100
    ELSE IF pct <= 3000 THEN 80
    ELSE IF pct <= 4000 THEN 60
    ELSE IF pct <= 5000 THEN 50
    ELSE IF pct <= 7000 THEN 20
    ELSE 0

\* scores["holder_concentration"]; pct in hundredths of a percent
HolderScore(pct) ==
    IF pct <= 2000 THEN 100
    ELSE IF pct <= 3000 THEN 80
    ELSE IF pct <= 4000 THEN 60
    ELSE IF pct <= 5000 THEN 40
    ELSE IF pct <= 7000 THEN 20
    ELSE 0

\* scores["token_age"]; age_hours = minutes / 60
TokenAgeScore(minutes) ==
    IF minutes >= 168 * 60 THEN 100
    ELSE IF minutes >= 72 * 60 THEN 80
    ELSE IF minutes >= 24 * 60 THEN 60
    ELSE IF minutes >= 6 * 60 THEN 40
    ELSE IF minutes >= 1 * 60 THEN 20
    ELSE 0

\* total_score, in hundredths: the sum over WEIGHTS of factor_score * weight (/ 100)
TotalScore100(mint, freeze, lp, top10, minutes) ==
      AuthorityScore(mint) * WEIGHT_MINT_AUTHORITY
    + AuthorityScore(freeze) * WEIGHT_FREEZE_AUTHORITY
    + LpLockedScore(lp) * WEIGHT_LP_LOCKED
    + HolderScore(top10) * WEIGHT_HOLDER_CONCENTRATION
    + TokenAgeScore(minutes) * WEIGHT_TOKEN_AGE

\* Python's round() of n / d for d > 0: to the nearest integer, a tie to the even one.
PyRound(n, d) ==
    LET q == n \div d
        r == n % d
    IN  IF 2 * r < d THEN q
        ELSE IF 2 * r > d THEN q + 1
        ELSE IF q % 2 = 0 THEN q ELSE q + 1

\* trust_score = int(round(total_score))
TrustScore(mint, freeze, lp, top10, minutes) ==
    PyRound(TotalScore100(mint, freeze, lp, top10, minutes), 100)

\* (mutant) the SAFE band taken exclusive of its bound
RiskLevelOf_Exclusive80(trust_score) ==
    IF trust_score > 80 THEN "SAFE"
    ELSE IF trust_score >= 60 THEN "LOW"
    ELSE IF trust_score >= 40 THEN "MEDIUM"
    ELSE IF trust_score >= 20 THEN "HIGH"
    ELSE "EXTREME"

\* risk_level
RiskLevelOf(trust_score) ==
    IF trust_score >= 80 THEN "SAFE"
    ELSE IF trust_score >= 60 THEN "LOW"
    ELSE IF trust_score >= 40 THEN "MEDIUM"
    ELSE IF trust_score >= 20 THEN "HIGH"
    ELSE "EXTREME"

\* RiskFactors: the five inputs, the floats rounded to two decimals.  The two
\* percentages are already in hundredths; age_hours is minutes / 60 rounded to
\* hundredths of an hour.
RiskFactorsOf(mint, freeze, lp, top10, minutes) ==
    [mint_authority_enabled |-> mint,
     freeze_authority_enabled |-> freeze,
     lp_locked_percent |-> lp,
     top_10_holder_percent |-> top10,
     age_hours |-> PyRound(minutes * 100, 60)]

\* calculate_trust_score: (trust_score, risk_level, risk_factors), with the sub-scores
\* kept for inspection
calculate_trust_score(mint, freeze, lp, top10, minutes) ==
    LET ts == TrustScore(mint, freeze, lp, top10, minutes)
    IN  [trust_score |-> ts,
         risk_level |-> RiskLevelOf(ts),
         risk_factors |-> RiskFactorsOf(mint, freeze, lp, top10, minutes),
         scores |-> [mint_authority |-> AuthorityScore(mint),
                     freeze_authority |-> AuthorityScore(freeze),
                     lp_locked |-> LpLockedScore(lp),
                     holder_concentration |-> HolderScore(top10),
                     token_age |-> TokenAgeScore(minutes)]]

-----------------------------------------------------------------------------
(* The cautious defaults of the two on-chain sources.                      *)

\* helius.py get_token_metadata: result before the account is read
DefaultMetadata ==
    [mint_authority_enabled |-> TRUE, freeze_authority_enabled |-> TRUE,
     decimals |-> 9, supply |-> 0]

DefaultTop10 == 5000
DefaultLpLocked == 0

\* (mutant) an optimistic concentration default
DefaultHolders_Optimistic ==
    [total_holders |-> 0, top_10_percent |-> 2000,
     lp_locked_percent |-> DefaultLpLocked, holder_data |-> <<>>]

\* solana_rpc.py get_holder_distribution: result before the accounts are read
DefaultHolders ==
    [total_holders |-> 0, top_10_percent |-> DefaultTop10,
     lp_locked_percent |-> DefaultLpLocked, holder_data |-> <<>>]

-----------------------------------------------------------------------------
(* Specification SpecScorer: calculate_trust_score called on sampled       *)
(* inputs, then called again on the same inputs.                           *)

LpThresholds == {0, 20, 40, 60, 80, 90, 100}
Top10Thresholds == {0, 20, 30, 40, 50, 70, 100}
AgeThresholds == {0, 1, 6, 24, 72, 168, 200}

Near(S, scale) == {t * scale + d : t \in S, d \in -Delta..Delta}

LpSamples == Near(LpThresholds, 100) \cup {9500}
Top10Samples == Near(Top10Thresholds, 100) \cup {1500, 9000}
AgeSamples == Near(AgeThresholds, 60) \cup {30}

ScorerInputs ==
    [mint : BOOLEAN, freeze : BOOLEAN, lp : LpSamples, top10 : Top10Samples,
     minutes : AgeSamples]

ScoreOf(in) == calculate_trust_score(in.mint, in.freeze, in.lp, in.top10, in.minutes)

ScoreCall ==
    /\ scPc = "idle"
    /\ \E in \in ScorerInputs :
        /\ scIn' = in
        /\ scOut' = ScoreOf(in)
    /\ scPc' = "scored"
    /\ UNCHANGED <<scOut2, notScorer>>

ScoreAgain ==
    /\ scPc = "scored"
    /\ scOut2' = ScoreOf(scIn)
    /\ scPc' = "rescored"
    /\ UNCHANGED <<scIn, scOut, notScorer>>

NextScorer == ScoreCall \/ ScoreAgain

SpecScorer == Init /\ [][NextScorer]_vars

-----------------------------------------------------------------------------
(* Claims about the scorer, under SpecScorer.                              *)

RiskLevels == {"EXTREME", "HIGH", "MEDIUM", "LOW", "SAFE"}

\* C1: for every combination of the five inputs calculate_trust_score returns an
\* integer trust_score with 0 <= trust_score <= 100, and the risk tier is the one
\* band that contains it: SAFE iff >= 80, LOW iff 60..79, MEDIUM iff 40..59,
\* HIGH iff 20..39, EXTREME iff < 20.
C1_ScoreInRangeTierMatchesBand ==
    scPc # "idle" =>
        LET s == scOut.trust_score
            t == scOut.risk_level
        IN  /\ s \in 0..100
            /\ t \in RiskLevels
            /\ (t = "SAFE") <=> (s >= 80)
            /\ (t = "LOW") <=> (60 <= s /\ s < 80)
            /\ (t = "MEDIUM") <=> (40 <= s /\ s < 60)
            /\ (t = "HIGH") <=> (20 <= s /\ s < 40)
            /\ (t = "EXTREME") <=> (s < 20)

\* C1 witness: a call whose score lies exactly on the lower bound of the SAFE band.
C1_Witness ==
    /\ scPc = "scored"
    /\ scOut.trust_score = 80
    /\ scOut.risk_level = "SAFE"

\* The band tables as the specification states them (section 4.5), in percent and hours.
C2_LpTable(pct) ==
    IF pct >= 90 * 100 THEN 100 ELSE IF pct >= 80 * 100 THEN 85
    ELSE IF pct >= 60 * 100 THEN 60 ELSE IF pct >= 40 * 100 THEN 40
    ELSE IF pct >= 20 * 100 THEN 20 ELSE 0

C2_Top10Table(pct) ==
    IF pct <= 20 * 100 THEN 100 ELSE IF pct <= 30 * 100 THEN 80
    ELSE IF pct <= 40 * 100 THEN 60 ELSE IF pct <= 50 * 100 THEN 40
    ELSE IF pct <= 70 * 100 THEN 20 ELSE 0

C2_AgeTable(minutes) ==
    IF minutes >= 168 * 60 THEN 100 ELSE IF minutes >= 72 * 60 THEN 80
    ELSE IF minutes >= 24 * 60 THEN 60 ELSE IF minutes >= 6 * 60 THEN 40
    ELSE IF minutes >= 60 THEN 20 ELSE 0

\* round(sum of subscore * weight / 100), to the nearest integer
C2_Formula(in) ==
    LET sum == (IF in.mint THEN 0 ELSE 100) * 25 + (IF in.freeze THEN 0 ELSE 100) * 20
               + C2_LpTable(in.lp) * 25 + C2_Top10Table(in.top10) * 20
               + C2_AgeTable(in.minutes) * 10
    IN  (sum + 50) \div 100

C2_AllGood == [mint |-> FALSE, freeze |-> FALSE, lp |-> 9500, top10 |-> 1500, minutes |-> 200 * 60]
C2_AllBad == [mint |-> TRUE, freeze |-> TRUE, lp |-> 0, top10 |-> 9000, minutes |-> 30]

\* C2: the score is round(sum of subscore * weight / 100) with the weights 25, 20,
\* 25, 20, 10 and the stated band tables, every threshold inclusive; a second call
\* with the same inputs returns the same score, tier and factors; (false, false,
\* 95, 15, 200 h) gives 100 / SAFE and (true, true, 0, 90, 0.5 h) gives 0 / EXTREME.
C2_ScoreIsWeightedTableSum ==
    /\ scPc # "idle" =>
        /\ scOut.trust_score = C2_Formula(scIn)
        /\ scIn = C2_AllGood => scOut.trust_score = 100 /\ scOut.risk_level = "SAFE"
        /\ scIn = C2_AllBad => scOut.trust_score = 0 /\ scOut.risk_level = "EXTREME"
    /\ scPc = "rescored" =>
        /\ scOut2.trust_score = scOut.trust_score
        /\ scOut2.risk_level = scOut.risk_level
        /\ scOut2.risk_factors = scOut.risk_factors

\* C2 witness: the all-favourable scenario scored twice, and an input exactly on the
\* 90 % bound was scored.
C2_Witness ==
    \/ scPc = "rescored" /\ scIn = C2_AllGood /\ scOut2.trust_score = 100
    \/ scPc = "rescored" /\ scIn.lp = 9000 /\ scOut.scores.lp_locked = 100

\* C7: for every token age, the score computed from the failure defaults (both
\* authorities active, top10 = 50, lpLocked = 0) is at most the score computed
\* for the same age from any data with lpLocked >= 0 and top10 <= 50.
C7_DefaultsNeverBeatFavourableData ==
    /\ DefaultMetadata.mint_authority_enabled /\ DefaultMetadata.freeze_authority_enabled
    /\ scPc # "idle" /\ scIn.lp >= 0 /\ scIn.top10 <= 50 * 100 =>
        TrustScore(DefaultMetadata.mint_authority_enabled,
                   DefaultMetadata.freeze_authority_enabled,
                   DefaultHolders.lp_locked_percent,
                   DefaultHolders.top_10_percent,
                   scIn.minutes) <= scOut.trust_score

\* C7 witness: favourable real data (top10 exactly 50, nothing locked) with
\* inactive authorities was scored, and scored strictly above the defaults.
C7_Witness ==
    /\ scPc = "scored"
    /\ ~scIn.mint /\ ~scIn.freeze /\ scIn.lp = 0 /\ scIn.top10 = 5000
    /\ scOut.trust_score > TrustScore(TRUE, TRUE, 0, 5000, scIn.minutes)

-----------------------------------------------------------------------------
(* Python values that cross the upstream boundary, as tagged records.      *)
(* Absent is a missing dictionary key, NoneV is None / JSON null.          *)

Absent == [t |-> "absent"]
NoneV == [t |-> "none"]
ListV(items) == [t |-> "list", items |-> items]
EmptyDict == [t |-> "emptydict"]

\* bool(v) of Python for the values above
Truthy(v) ==
    CASE v.t = "absent" -> FALSE
      [] v.t = "none" -> FALSE
      [] v.t = "list" -> Len(v.items) > 0
      [] v.t = "emptydict" -> FALSE
      [] OTHER -> TRUE

(* An upstream exchange: either the client raises (connection error, or    *)
(* the 30 s timeout fires) or a response arrives with a status and a body. *)
(* A body is not JSON ("invalid"), or JSON null, a JSON list, or a JSON    *)
(* object; an object may carry an "error" key and a "result" key, and the  *)
(* result, when an object, a "value" key.                                  *)
ClientError == [exc |-> TRUE]
Response(status, body) == [exc |-> FALSE, status |-> status, body |-> body]

InvalidJson == [t |-> "invalid"]
JsonNull == [t |-> "null"]
JsonList(items) == [t |-> "list", items |-> items]
JsonObject(error, result) == [t |-> "object", error |-> error, result |-> result]
ResultObject(value) == [t |-> "object", value |-> value]

-----------------------------------------------------------------------------
(* The four rate-limited calls: get_token_pairs (dex_screener.py),         *)
(* _get_account_info (helius.py), _get_token_largest_accounts and          *)
(* _get_token_supply (solana_rpc.py).  One pass of the loop body is        *)
(* HandleResponse: what the code does with one upstream exchange.          *)

RateLimitedCalls ==
    {"get_token_pairs", "_get_account_info", "_get_token_largest_accounts",
     "_get_token_supply"}

\* (mutant) one attempt too many
MaxAttempts_Four == 3 + 1

\* for attempt in range(3)
MaxAttempts == 3

\* 2 ** attempt
RECURSIVE Pow2(_)
Pow2(n) == IF n <= 0 THEN 1 ELSE 2 * Pow2(n - 1)

WaitTime(attempt) == Pow2(attempt)

Raise == [act |-> "raise"]
Retry(attempt) == [act |-> "retry", sleep |-> WaitTime(attempt)]
Return(value) == [act |-> "return", value |-> value]

\* what each call returns when it gives up
FailureResult(call) ==
    IF call = "_get_token_largest_accounts" THEN ListV(<<>>) ELSE NoneV

\* get_token_pairs, lines 120-136, after a response arrived
HandlePairs(resp, attempt) ==
    IF resp.status = 429 THEN Retry(attempt)
    ELSE IF resp.status = 404 THEN Return(NoneV)
    ELSE IF resp.status # 200 THEN Return(NoneV)
    ELSE IF resp.body.t = "invalid" THEN Raise                \* response.json()
    ELSE IF resp.body.t = "list" THEN Return(ListV(resp.body.items))
    ELSE Return(NoneV)

\* response.json() followed by the test '"error" in data' of the three RPC calls:
\* TRUE when the call goes on to read the result
RpcBodyRaises(body) ==
    \/ body.t = "invalid"       \* response.json() raises
    \/ body.t = "null"          \* "error" in None raises TypeError
    \/ body.t = "list"          \* data.get raises AttributeError

\* _get_account_info, lines 60-83
HandleAccountInfo(resp, attempt) ==
    IF resp.status = 429 THEN Retry(attempt)
    ELSE IF resp.status # 200 THEN Return(NoneV)
    ELSE IF RpcBodyRaises(resp.body) THEN Raise
    ELSE IF resp.body.error THEN Return(NoneV)
    ELSE LET result == resp.body.result
         IN  IF result.t # "object" THEN Return(NoneV)          \* not result
             ELSE IF ~Truthy(result.value) THEN Return(NoneV)   \* not result.get("value")
             ELSE Return(result.value)

\* data.get("result", {}).get("value", default) of the two solana_rpc.py calls
RpcValueOrDefault(resp, default) ==
    LET result == resp.body.result
    IN  IF result.t = "absent" THEN Return(default)
        ELSE IF result.t = "none" THEN Raise                    \* None.get
        ELSE IF result.value.t = "absent" THEN Return(default)
        ELSE Return(result.value)

\* _get_token_largest_accounts, lines 123-141
HandleLargestAccounts(resp, attempt) ==
    IF resp.status = 429 THEN Retry(attempt)
    ELSE IF resp.status # 200 THEN Return(ListV(<<>>))
    ELSE IF RpcBodyRaises(resp.body) THEN Raise
    ELSE IF resp.body.error THEN Return(ListV(<<>>))
    ELSE RpcValueOrDefault(resp, ListV(<<>>))

\* _get_token_supply, lines 155-171
HandleSupply(resp, attempt) ==
    IF resp.status = 429 THEN Retry(attempt)
    ELSE IF resp.status # 200 THEN Return(NoneV)
    ELSE IF RpcBodyRaises(resp.body) THEN Raise
    ELSE IF resp.body.error THEN Return(NoneV)
    ELSE RpcValueOrDefault(resp, EmptyDict)

\* one pass of the loop body: the awaited request, then the handling of its response
HandleResponse(call, resp, attempt) ==
    IF resp.exc THEN Raise          \* await self.client.get / post raised
    ELSE CASE call = "get_token_pairs" -> HandlePairs(resp, attempt)
           [] call = "_get_account_info" -> HandleAccountInfo(resp, attempt)
           [] call = "_get_token_largest_accounts" -> HandleLargestAccounts(resp, attempt)
           [] call = "_get_token_supply" -> HandleSupply(resp, attempt)

-----------------------------------------------------------------------------
(* Specification SpecRetry: one rate-limited call, stepped at its await    *)
(* points, against every upstream exchange of Exchanges.                   *)

Statuses == {200, 404, 429, 500}

\* an opaque non-empty payload: a pair list, an account value, ...
Payload == ListV(<<"item">>)

ResultShapes ==
    {Absent, NoneV, ResultObject(Absent), ResultObject(NoneV), ResultObject(Payload),
     ResultObject(ListV(<<>>))}

Bodies ==
    {InvalidJson, JsonNull, JsonList(<<>>), JsonList(<<"item">>)}
    \cup {JsonObject(TRUE, Absent)}
    \cup {JsonObject(FALSE, r) : r \in ResultShapes}

Exchanges ==
    {ClientError}
    \cup {Response(st, InvalidJson) : st \in Statuses \ {200}}
    \cup {Response(200, b) : b \in Bodies}

\* the caller invokes one of the four calls
RlStart ==
    /\ rlPc = "idle"
    /\ \E call \in RateLimitedCalls : rlCall' = call
    /\ rlPc' = "request"
    /\ UNCHANGED <<rlAttempt, rlLog, rlSleeps, rlResult, notRetry>>

\* await self.client.get / post, and the handling of what came back, up to the
\* next await (asyncio.sleep) or the end of the call
RlRequest ==
    /\ rlPc = "request"
    /\ \E resp \in Exchanges :
        LET h == HandleResponse(rlCall, resp, rlAttempt)
        IN  /\ rlLog' = Append(rlLog, resp)
            /\ CASE h.act = "retry" ->
                    /\ rlSleeps' = Append(rlSleeps, h.sleep)
                    /\ rlPc' = "sleeping"
                    /\ UNCHANGED rlResult
                 [] h.act = "return" ->
                    /\ rlResult' = [kind |-> "return", value |-> h.value]
                    /\ rlPc' = "done"
                    /\ UNCHANGED rlSleeps
                 [] h.act = "raise" ->
                    /\ rlResult' = [kind |-> "raise"]
                    /\ rlPc' = "done"
                    /\ UNCHANGED rlSleeps
    /\ UNCHANGED <<rlCall, rlAttempt, notRetry>>

\* asyncio.sleep returns; continue: the next attempt, or the loop is exhausted and
\* the call returns its failure result
RlWake ==
    /\ rlPc = "sleeping"
    /\ rlAttempt' = rlAttempt + 1
    /\ IF rlAttempt + 1 < MaxAttempts
       THEN /\ rlPc' = "request"
            /\ UNCHANGED rlResult
       ELSE /\ rlPc' = "done"
            /\ rlResult' = [kind |-> "return", value |-> FailureResult(rlCall)]
    /\ UNCHANGED <<rlCall, rlLog, rlSleeps, notRetry>>

NextRetry == RlStart \/ RlRequest \/ RlWake

SpecRetry == Init /\ [][NextRetry]_vars

\* Every await of the call completes: the client answers or raises within its
\* timeout, and a sleep ends.
SpecRetryFair == SpecRetry /\ WF_vars(RlRequest) /\ WF_vars(RlWake)

-----------------------------------------------------------------------------
(* A whole rate-limited call against a script: the exchanges upstream      *)
(* answers with, one per attempt.  The result is what the caller sees.     *)

RECURSIVE RunFrom(_, _, _)
RunFrom(call, script, attempt) ==
    IF attempt >= MaxAttempts
    THEN [kind |-> "return", value |-> FailureResult(call), requests |-> attempt]
    ELSE LET h == HandleResponse(call, script[attempt + 1], attempt)
         IN  CASE h.act = "retry" -> RunFrom(call, script, attempt + 1)
               [] h.act = "return" ->
                    [kind |-> "return", value |-> h.value, requests |-> attempt + 1]
               [] h.act = "raise" -> [kind |-> "raise", requests |-> attempt + 1]

RunCall(call, script) == RunFrom(call, script, 0)

Throttled == Response(429, InvalidJson)

\* the scripts whose last exchange is one of E, after zero, one or two 429s, and the
\* script of three 429s
Scripts(E) ==
    {<<e>> : e \in E} \cup {<<Throttled, e>> : e \in E}
    \cup {<<Throttled, Throttled, e>> : e \in E \cup {Throttled}}

-----------------------------------------------------------------------------
(* cachetools.TTLCache as the three clients use it: "key in cache",        *)
(* "cache[key]" and "cache[key] = value".  An entry written at time t with *)
(* time-to-live ttl is present while now < t + ttl.  The capacity          *)
(* (maxsize) is far above the number of keys of the model and is not       *)
(* modelled.                                                               *)

\* (mutant) the entry is taken for expired a second early
CacheHas_ExpiresEarly(cache, key) ==
    key \in DOMAIN cache /\ now + 1 < cache[key].expires

CacheHas(cache, key) ==
    key \in DOMAIN cache /\ now < cache[key].expires

CachePut(cache, key, entry) ==
    LET live == {k \in DOMAIN cache : now < cache[k].expires} \cup {key}
    IN  [k \in live |-> IF k = key THEN entry ELSE cache[k]]

\* Bound: how many times the clock is advanced.
MaxTicks == 2

-----------------------------------------------------------------------------
(* HeliusClient (helius.py): get_token_metadata and _parse_mint_account.   *)

\* metadata_cache = TTLCache(maxsize=500, ttl=300)
METADATA_TTL == 300

\* the length below which an account blob is not a mint
MINT_ACCOUNT_LEN == 82

\* the "value" of a getAccountInfo result: a dict whose "data" is data
AccountValue(data) == [t |-> "account", data |-> data]
\* a base64 text that decodes to bytes, and one that does not decode
B64(bytes) == [t |-> "b64", bytes |-> bytes]
BadB64 == [t |-> "badb64"]
\* a "data" that is a string or a dict (another encoding), not a list
NotAList == [t |-> "str"]

\* byte k of raw_data (Python counts from 0)
Byte(raw, k) == raw[k + 1]

\* int.from_bytes(raw_data[first:first + n], byteorder='little')
RECURSIVE LittleEndian(_, _, _)
LittleEndian(raw, first, n) ==
    IF n = 0 THEN 0
    ELSE Byte(raw, first) + 256 * LittleEndian(raw, first + 1, n - 1)

\* (mutant) the length test left out for blobs that hold the bytes that are read
ParseMintBytes_NoLengthTest(raw) ==
    IF Len(raw) < 50 THEN DefaultMetadata
    ELSE [mint_authority_enabled |-> Byte(raw, 0) = 1,
          freeze_authority_enabled |-> Byte(raw, 46) = 1,
          decimals |-> Byte(raw, 44),
          supply |-> LittleEndian(raw, 36, 8)]

\* _parse_mint_account, lines 102-120: the decoded bytes
ParseMintBytes(raw) ==
    IF Len(raw) < MINT_ACCOUNT_LEN THEN DefaultMetadata
    ELSE LET r1 == [DefaultMetadata EXCEPT !.mint_authority_enabled = (Byte(raw, 0) = 1)]
             r2 == IF Len(raw) >= 36
                   THEN [r1 EXCEPT !.supply = LittleEndian(raw, 36, 8)] ELSE r1
             r3 == IF Len(raw) >= 45
                   THEN [r2 EXCEPT !.decimals = Byte(raw, 44)] ELSE r2
         IN  IF Len(raw) >= 50
             THEN [r3 EXCEPT !.freeze_authority_enabled = (Byte(raw, 46) = 1)] ELSE r3

\* _parse_mint_account, lines 88-120: returns a dict or raises
ParseMintAccount(account_info) ==
    IF account_info.t # "account" THEN [kind |-> "raise"]        \* .get on a non-dict
    ELSE LET data == account_info.data
         IN  IF ~Truthy(data) \/ data.t # "list"
             THEN [kind |-> "return", value |-> DefaultMetadata]
             ELSE IF data.items[1].t # "b64" THEN [kind |-> "raise"]   \* b64decode
             ELSE [kind |-> "return", value |-> ParseMintBytes(data.items[1].bytes)]

\* get_token_metadata, lines 29-44, once _get_account_info has ended with outcome out:
\* what the call returns, or that it raises
MetadataAfterFetch(out) ==
    IF out.kind = "raise" THEN [kind |-> "raise"]
    ELSE IF ~Truthy(out.value) THEN [kind |-> "return", value |-> DefaultMetadata]
    ELSE ParseMintAccount(out.value)     \* result.update(parsed): parsed has every key

-----------------------------------------------------------------------------
(* Specification SpecMint: get_token_metadata called again and again for   *)
(* one mint while the clock advances.  The cache key is the address        *)
(* itself ("metadata_" + mint_address), so calls for different mints share *)
(* no state.                                                               *)

MintAddrs == {1}

\* a mint account blob of len bytes with the given option bytes, 6 decimals and
\* supply 0x0201 (bytes 36 and 37 set)
MintBlob(len, b0, b46) ==
    [i \in 1..len |->
        CASE i = 1 -> b0
          [] i = 37 -> 1
          [] i = 38 -> 2
          [] i = 45 -> 6
          [] i = 47 -> b46
          [] OTHER -> 0]

Blobs ==
    {MintBlob(len, b0, b46) :
        len \in {0, MINT_ACCOUNT_LEN - 1, MINT_ACCOUNT_LEN, MINT_ACCOUNT_LEN + 1},
        b0 \in 0..2, b46 \in 0..2}

AccountDatas ==
    {Absent, NoneV, NotAList, ListV(<<>>), ListV(<<BadB64>>)}
    \cup {ListV(<<B64(b), "base64">>) : b \in Blobs}

RpcOk(value) == Response(200, JsonObject(FALSE, ResultObject(value)))

AccountInfoExchanges ==
    {ClientError, Response(500, InvalidJson), Response(200, InvalidJson),
     Response(200, JsonObject(TRUE, Absent)), Response(200, JsonObject(FALSE, Absent)),
     RpcOk(NoneV), RpcOk(Payload)}
    \cup {RpcOk(AccountValue(d)) : d \in AccountDatas}

Tick(ttl) ==
    /\ ticks < MaxTicks
    /\ \E d \in {1, ttl - 1} : now' = now + d
    /\ ticks' = ticks + 1

\* get_token_metadata, lines 23-27: the cache test, and the return on a hit
MtCall ==
    /\ mtPc = "idle"
    /\ \E a \in MintAddrs :
        /\ mtAddr' = a
        /\ IF CacheHas(metadata_cache, a)
           THEN /\ mtPc' = "done"
                /\ mtResult' = [kind |-> "return", value |-> metadata_cache[a].value,
                                src |-> metadata_cache[a].src, hit |-> TRUE]
           ELSE /\ mtPc' = "fetching"
                /\ mtResult' = None
    /\ mtRequests' = 0
    /\ UNCHANGED <<metadata_cache, clockVars, notMint>>

\* lines 36-44: _get_account_info ends, the account is parsed, the result is cached
\* and returned; or an exception leaves the call
MtFetched ==
    /\ mtPc = "fetching"
    /\ \E script \in Scripts(AccountInfoExchanges) :
        LET out == RunCall("_get_account_info", script)
            res == MetadataAfterFetch(out)
        IN  /\ mtRequests' = out.requests
            /\ IF res.kind = "raise"
               THEN /\ mtResult' = [kind |-> "raise", src |-> script[Len(script)]]
                    /\ UNCHANGED metadata_cache
               ELSE /\ mtResult' = [kind |-> "return", value |-> res.value,
                                    src |-> script[Len(script)], hit |-> FALSE]
                    /\ metadata_cache' =
                            CachePut(metadata_cache, mtAddr,
                                     [value |-> res.value, expires |-> now + METADATA_TTL,
                                      src |-> script[Len(script)]])
    /\ mtPc' = "done"
    /\ UNCHANGED <<mtAddr, clockVars, notMint>>

\* the caller has the result; the next call may start
MtReturn ==
    /\ mtPc = "done"
    /\ mtPc' = "idle"
    /\ mtResult' = None
    /\ mtAddr' = None
    /\ mtRequests' = 0
    /\ UNCHANGED <<metadata_cache, clockVars, notMint>>

MtTick ==
    /\ Tick(METADATA_TTL)
    /\ UNCHANGED <<mintVars, notMint>>

NextMint == MtCall \/ MtFetched \/ MtReturn \/ MtTick

SpecMint == Init /\ [][NextMint]_vars

-----------------------------------------------------------------------------
(* Upstream as one request sees it: what each endpoint answers.            *)
(*   boosted, profiles : the exchange of the two listing endpoints         *)
(*   pairs[a]          : the script of "pairs by token address" for a      *)
(*   account[a]        : the script of getAccountInfo for a                *)
(*   largest[a]        : the script of getTokenLargestAccounts for a       *)
(*   supply[a]         : the script of getTokenSupply for a                *)
(* A token profile of a listing is [chainId, tokenAddress, name]; an       *)
(* empty string is a key that is missing.  A trading pair is [baseName,    *)
(* liquidity, pairCreatedAt, pairAddress].                                 *)

TokenProfile(chain, addr, name) == [chainId |-> chain, tokenAddress |-> addr, name |-> name]

\* the "liquidity" of a pair when it is {"usd": n}; Absent when the key is missing
Usd(n) == [t |-> "dict", usd |-> n]

\* the "pairCreatedAt" of a pair, here in seconds of the model's clock (upstream
\* sends milliseconds; the code divides by 1000); Absent when the key is missing
CreatedAt(seconds) == [t |-> "int", v |-> seconds]

TradingPair(baseName, liquidity, created, pairAddress) ==
    [baseName |-> baseName, liquidity |-> liquidity, pairCreatedAt |-> created,
     pairAddress |-> pairAddress]

-----------------------------------------------------------------------------
(* DexScreenerClient (dex_screener.py).                                    *)

\* seq[:k] of Python
PySliceTo(seq, k) ==
    LET n == IF k >= 0 THEN (IF k < Len(seq) THEN k ELSE Len(seq))
             ELSE (IF Len(seq) + k > 0 THEN Len(seq) + k ELSE 0)
    IN  SubSeq(seq, 1, n)

Min2(a, b) == IF a < b THEN a ELSE b

\* int(x / d) of Python for d > 0: the quotient cut towards zero
TruncDiv(x, d) == IF x >= 0 THEN x \div d ELSE -((-x) \div d)

\* usd_liquidity of _select_best_pair, lines 143-144
UsdLiquidity(pair) ==
    IF pair.liquidity.t = "dict" THEN pair.liquidity.usd ELSE 0

\* valid_pairs of _select_best_pair, lines 141-147, as the places in pairs of the
\* pairs that meet the floor, in upstream order
ValidPairs(pairs, min_liquidity) ==
    SelectSeq([i \in 1..Len(pairs) |-> i],
              LAMBDA i : UsdLiquidity(pairs[i]) >= min_liquidity)

\* (mutant) a sort that puts a pair before the pairs it ties with
RECURSIVE SortByLiquidity_Unstable(_, _)
SortByLiquidity_Unstable(pairs, valid) ==
    IF valid = <<>> THEN <<>>
    ELSE LET rest == SortByLiquidity_Unstable(pairs, SubSeq(valid, 1, Len(valid) - 1))
             x == valid[Len(valid)]
             k == Cardinality({j \in 1..Len(rest) :
                                UsdLiquidity(pairs[rest[j]]) > UsdLiquidity(pairs[x])})
         IN  SubSeq(rest, 1, k) \o <<x>> \o SubSeq(rest, k + 1, Len(rest))

\* valid_pairs.sort(key=lambda x: x[1], reverse=True), line 152: list.sort is stable,
\* also under reverse=True
RECURSIVE SortByLiquidity(_, _)
SortByLiquidity(pairs, valid) ==
    IF valid = <<>> THEN <<>>
    ELSE LET rest == SortByLiquidity(pairs, SubSeq(valid, 1, Len(valid) - 1))
             x == valid[Len(valid)]
             k == Cardinality({j \in 1..Len(rest) :
                                UsdLiquidity(pairs[rest[j]]) >= UsdLiquidity(pairs[x])})
         IN  SubSeq(rest, 1, k) \o <<x>> \o SubSeq(rest, k + 1, Len(rest))

\* _select_best_pair: the place in pairs of the pair it returns, or 0 for None
SelectBestPair(pairs, min_liquidity) ==
    IF ValidPairs(pairs, min_liquidity) = <<>> THEN 0
    ELSE SortByLiquidity(pairs, ValidPairs(pairs, min_liquidity))[1]

\* _enrich_token_data: the snapshot of a candidate; created in seconds of the clock
EnrichTokenData(token_profile, pair) ==
    LET created == pair.pairCreatedAt
        known == created.t = "int" /\ created.v # 0        \* if pair_created_at:
    IN  [name |-> IF pair.baseName # "" THEN pair.baseName ELSE token_profile.name,
         contract_address |-> token_profile.tokenAddress,
         created_at |-> IF known THEN created ELSE NoneV,
         age_minutes |-> IF known THEN TruncDiv(now - created.v, 60) ELSE 0,
         liquidity_usd |-> UsdLiquidity(pair),
         pair_address |-> pair.pairAddress]

\* processed % 10 == 0: the pause of _enrich_tokens
PAUSE_EVERY == 10

(* Where the outcome of a call is used several times it is bound once, as  *)
(*     CHOOSE r \in {body : x \in {call}} : TRUE                            *)
(* which is "LET x == call IN body" with the call evaluated a single time. *)

\* one pass of the loop of _enrich_tokens for a token with an address, once
\* get_token_pairs has ended with outcome out: how the pass ends ("" when the loop
\* goes on) and acc = [enriched, processed, pauses, requests] after it
EnrichPass(token, out, limit, min_liquidity, acc) ==
    LET acc1 == [acc EXCEPT !.processed = @ + 1, !.requests = @ + out.requests]
    IN  IF out.kind = "raise" THEN [end |-> "raise", acc |-> acc1]
        ELSE IF ~Truthy(out.value) THEN [end |-> "", acc |-> acc1]
        ELSE LET best == SelectBestPair(out.value.items, min_liquidity)
             IN  IF best = 0 THEN [end |-> "", acc |-> acc1]
                 ELSE LET acc2 == [acc1 EXCEPT !.enriched =
                                      Append(@, EnrichTokenData(token,
                                                                out.value.items[best]))]
                      IN  IF Len(acc2.enriched) >= limit
                          THEN [end |-> "return", acc |-> acc2]
                          ELSE IF acc2.processed % PAUSE_EVERY = 0
                          THEN [end |-> "", acc |-> [acc2 EXCEPT !.pauses = @ + 1]]
                          ELSE [end |-> "", acc |-> acc2]

\* _enrich_tokens from candidate i on
RECURSIVE EnrichFrom(_, _, _, _, _, _)
EnrichFrom(tokens, i, limit, min_liquidity, pairs, acc) ==
    IF i > Len(tokens) THEN [kind |-> "return"] @@ acc
    ELSE IF tokens[i].tokenAddress = ""
    THEN EnrichFrom(tokens, i + 1, limit, min_liquidity, pairs, acc)
    ELSE CHOOSE r \in
            {IF pass.end # "" THEN [kind |-> pass.end] @@ pass.acc
             ELSE EnrichFrom(tokens, i + 1, limit, min_liquidity, pairs, pass.acc) :
                pass \in
                    {EnrichPass(tokens[i], out, limit, min_liquidity, acc) :
                        out \in {RunCall("get_token_pairs",
                                         pairs[tokens[i].tokenAddress])}}} : TRUE

\* _enrich_tokens
EnrichTokens(tokens, limit, min_liquidity, pairs) ==
    EnrichFrom(PySliceTo(tokens, Min2(limit * 5, 100)), 1, limit, min_liquidity, pairs,
               [enriched |-> <<>>, processed |-> 0, pauses |-> 0, requests |-> 0])

\* _fetch_from_latest_boosted / _fetch_from_token_profiles from the awaited GET on
\* (the listing endpoints are not retried)
FetchListing(exch, limit, min_liquidity, pairs) ==
    LET nothing == [enriched |-> <<>>, processed |-> 0, pauses |-> 0, requests |-> 1]
    IN  IF exch.exc THEN [kind |-> "raise"] @@ nothing
        ELSE IF exch.status # 200 THEN [kind |-> "return"] @@ nothing
        ELSE IF exch.body.t # "list" THEN [kind |-> "raise"] @@ nothing
        ELSE LET solana_tokens ==
                    SelectSeq(exch.body.items, LAMBDA t : t.chainId = "solana")
                 r == EnrichTokens(solana_tokens, limit, min_liquidity, pairs)
             IN  [r EXCEPT !.requests = @ + 1]

\* lines 37-39: the profiles listing, for what the boosted listing b left missing
\* (the test "limit <= 0" of _fetch_from_token_profiles is never true here)
FetchMissing(b, limit, min_liquidity, up) ==
    IF b.kind = "raise" \/ ~(Len(b.enriched) < limit) THEN b
    ELSE CHOOSE r \in
            {[kind |-> q.kind,
              enriched |-> b.enriched \o q.enriched,
              processed |-> b.processed + q.processed,
              pauses |-> b.pauses + q.pauses,
              requests |-> b.requests + q.requests] :
                q \in {FetchListing(up.profiles, limit - Len(b.enriched),
                                    min_liquidity, up.pairs)}} : TRUE

\* get_latest_solana_tokens, lines 35-39, on a cache miss: the boosted listing, then
\* the profiles listing
FetchLatest(limit, min_liquidity, up) ==
    CHOOSE r \in
        {FetchMissing(b, limit, min_liquidity, up) :
            b \in {FetchListing(up.boosted, limit, min_liquidity, up.pairs)}} : TRUE

-----------------------------------------------------------------------------
(* SolanaRPCClient (solana_rpc.py): get_holder_distribution.               *)
(* A token account of getTokenLargestAccounts is [address, amount].  An    *)
(* address is a sequence of text chunks, so that "x in address" (a         *)
(* substring test) is "some chunk is x"; an amount is a decimal string     *)
(* AmountStr(n), a string that is no number (BadStr), or Absent.           *)

RAYDIUM_AUTHORITY == "5Q544fKrFoe6tsEbD7S8EmxGTJYAKtTVhAW5Q5pge4j1"
ORCA_AUTHORITY == "9W959DqEETiGZocYWCQPaJ6sBmUzgfxXfqGeTEdp3aQP"

KNOWN_LP_PROGRAMS ==
    {"675kPX9MHTjS2zt1qfr1NYHuzeLXfQM9H24wFSUt1Mp8",
     "CAMMCzo5YL8w4VFF8KVHrK22GGUsp5VTaW7grrKgrWqK",
     "whirLbMiicVdio4qvUfM5KAg6Ct8VwpYzGff3uctyCc",
     "LBUZKhRxPF3XUpBCjp4YzTKgLccjZhTSDM9YuVaPwxo"}

BURN_ADDRESSES ==
    {"1nc1nerator11111111111111111111111111111111",
     "11111111111111111111111111111111"}

AmountStr(n) == [t |-> "str", v |-> n]
BadStr == [t |-> "badstr"]

TokenAccount(address, amount) == [address |-> address, amount |-> amount]

\* the "value" of a getTokenSupply result
SupplyValue(amount) == [t |-> "supply", amount |-> amount]

\* _is_likely_lp_or_locked
IsLikelyLpOrLocked(address) ==
    \/ \E b \in BURN_ADDRESSES : address = <<b>>
    \/ \E i \in DOMAIN address :
            address[i] \in {RAYDIUM_AUTHORITY, ORCA_AUTHORITY} \cup KNOWN_LP_PROGRAMS

\* int(amount_str) if amount_str else 0, for an amount that int() accepts
AmountOf(amount) == IF amount.t = "str" THEN amount.v ELSE 0

\* largest_accounts[:10]
TOP_N == 10

\* (mutant) an LP or locked account counted among the holders as well
RECURSIVE SumAmounts_BothBuckets(_, _)
SumAmounts_BothBuckets(seq, bucket) ==
    IF seq = <<>> THEN 0
    ELSE LET a == Head(seq)
             in == \/ bucket = "all"
                   \/ bucket = "lp" /\ IsLikelyLpOrLocked(a.address)
                   \/ bucket = "holder"
         IN  (IF in THEN AmountOf(a.amount) ELSE 0)
             + SumAmounts_BothBuckets(Tail(seq), bucket)

\* the sum of the amounts of the accounts of seq in a bucket: "all" of them, the
\* "lp" ones (LP or locked) or the "holder" ones (the others)
RECURSIVE SumAmounts(_, _)
SumAmounts(seq, bucket) ==
    IF seq = <<>> THEN 0
    ELSE LET a == Head(seq)
             in == \/ bucket = "all"
                   \/ bucket = "lp" /\ IsLikelyLpOrLocked(a.address)
                   \/ bucket = "holder" /\ ~IsLikelyLpOrLocked(a.address)
         IN  (IF in THEN AmountOf(a.amount) ELSE 0) + SumAmounts(Tail(seq), bucket)

\* (amount / total_supply) * 100 rounded to two decimals, in hundredths of a percent
Percent(amount, total_supply) == PyRound(amount * 10000, total_supply)

\* get_holder_distribution, lines 59-112: largest_accounts is a non-empty list and
\* supply_info what _get_token_supply returned
HolderDistribution(largest_accounts, supply_info) ==
    IF Truthy(supply_info) /\ supply_info.t # "supply"
    THEN [kind |-> "raise"]                                   \* .get on a non-dict
    ELSE IF Truthy(supply_info) /\ supply_info.amount.t = "badstr"
    THEN [kind |-> "raise"]                                   \* int() of a non-number
    ELSE
    LET read == IF Truthy(supply_info) THEN AmountOf(supply_info.amount) ELSE 0
        parsed == IF read = 0 THEN largest_accounts
                  ELSE PySliceTo(largest_accounts, TOP_N)
    IN
    IF \E i \in DOMAIN parsed : parsed[i].amount.t = "badstr"
    THEN [kind |-> "raise"]                                   \* int() of a non-number
    ELSE
    LET total_supply == IF read = 0
                        THEN SumAmounts(largest_accounts, "all")
                        ELSE read
        top == PySliceTo(largest_accounts, TOP_N)
        lp_locked_amount == SumAmounts(top, "lp")
        top_10_amount == SumAmounts(top, "holder")
    IN  IF total_supply = 0 THEN [kind |-> "return", value |-> DefaultHolders]
        ELSE [kind |-> "return",
              value |->
                [total_holders |-> Len(largest_accounts),
                 top_10_percent |-> Percent(top_10_amount, total_supply),
                 lp_locked_percent |-> Percent(lp_locked_amount, total_supply),
                 holder_data |->
                    [i \in 1..Len(top) |->
                        [rank |-> i,
                         address |-> top[i].address,
                         amount |-> AmountOf(top[i].amount),
                         percentage |-> Percent(AmountOf(top[i].amount), total_supply),
                         is_lp_or_locked |-> IsLikelyLpOrLocked(top[i].address)]]]]

\* lines 59-112, once _get_token_largest_accounts returned lo and _get_token_supply
\* ended with outcome so
HoldersAfterSupply(lo, so) ==
    IF so.kind = "raise" \/ lo.value.t # "list"
    THEN [kind |-> "raise", requests |-> lo.requests + so.requests]
    ELSE [requests |-> lo.requests + so.requests]
            @@ HolderDistribution(lo.value.items, so.value)

\* lines 53-112, once _get_token_largest_accounts has ended with outcome lo
HoldersAfterLargest(lo, supply_script) ==
    IF lo.kind = "raise" THEN [kind |-> "raise", requests |-> lo.requests]
    ELSE IF ~Truthy(lo.value)
    THEN [kind |-> "return", value |-> DefaultHolders, requests |-> lo.requests]
    ELSE CHOOSE r \in
            {HoldersAfterSupply(lo, so) :
                so \in {RunCall("_get_token_supply", supply_script)}} : TRUE

\* get_holder_distribution, lines 46-112, on a cache miss, against the scripts of its
\* two reads: [kind, value, requests]
HoldersFetch(largest_script, supply_script) ==
    CHOOSE r \in
        {HoldersAfterLargest(lo, supply_script) :
            lo \in {RunCall("_get_token_largest_accounts", largest_script)}} : TRUE

\* holder_cache = TTLCache(maxsize=200, ttl=120)
HOLDER_TTL == 120

\* get_token_metadata, lines 29-44, on a cache miss, against the script of its read
MetadataFetch(account_script) ==
    CHOOSE r \in
        {[requests |-> out.requests] @@ MetadataAfterFetch(out) :
            out \in {RunCall("_get_account_info", account_script)}} : TRUE

-----------------------------------------------------------------------------
(* The clients as a request handler calls them: each call reads the        *)
(* upstream up and the cache of its client, and hands back the cache as    *)
(* the call left it.                                                       *)

\* cache_ttl_seconds of config.py: the ttl of token_cache
cache_ttl_seconds == 60
max_tokens_limit == 50
default_tokens_limit == 10
default_min_liquidity == 1000

\* cache_key of get_latest_solana_tokens: the text "latest_tokens_<limit>_<min_liquidity>"
\* is different for different (limit, min_liquidity), so the pair stands for it
TokenCacheKey(limit, min_liquidity) == <<limit, min_liquidity>>

\* datetime.now(timezone.utc), a value that is never falsy
TimeV(seconds) == [t |-> "time", v |-> seconds]

\* lines 30-33: the return on a hit
LatestFromCache(cache, cache_key) ==
    [kind |-> "return", tokens |-> cache[cache_key].tokens, cached |-> TRUE,
     cached_at |-> cache[cache_key].cached_at, cache |-> cache, requests |-> 0]

\* lines 35-47: what follows the fetch f of the two listings
LatestFromFetch(cache, cache_key, f) ==
    IF f.kind = "raise"
    THEN [kind |-> "raise", cache |-> cache, requests |-> f.requests]
    ELSE [kind |-> "return", tokens |-> f.enriched, cached |-> FALSE,
          cached_at |-> NoneV, requests |-> f.requests,
          cache |-> CachePut(cache, cache_key,
                             [tokens |-> f.enriched,
                              cached_at |-> TimeV(now),
                              expires |-> now + cache_ttl_seconds])]

\* get_latest_solana_tokens: (tokens, cached, cached_at)
GetLatestSolanaTokens(limit, min_liquidity, up, cache) ==
    IF CacheHas(cache, TokenCacheKey(limit, min_liquidity))
    THEN LatestFromCache(cache, TokenCacheKey(limit, min_liquidity))
    ELSE CHOOSE r \in
            {LatestFromFetch(cache, TokenCacheKey(limit, min_liquidity), f) :
                f \in {FetchLatest(limit, min_liquidity, up)}} : TRUE

\* (mutant) the defaults are returned but not stored
StoreAndReturn_SuccessOnly(cache, mint_address, r, ttl) ==
    IF r.kind = "raise"
    THEN [kind |-> "raise", cache |-> cache, requests |-> r.requests]
    ELSE [kind |-> "return", value |-> r.value, requests |-> r.requests,
          cache |-> IF r.value \in {DefaultMetadata, DefaultHolders} THEN cache
                    ELSE CachePut(cache, mint_address,
                                  [value |-> r.value, expires |-> now + ttl])]

\* lines 36-44 of helius.py / 53-112 of solana_rpc.py: the fetched result r is stored
\* for ttl seconds and returned, or the exception goes on
StoreAndReturn(cache, mint_address, r, ttl) ==
    IF r.kind = "raise"
    THEN [kind |-> "raise", cache |-> cache, requests |-> r.requests]
    ELSE [kind |-> "return", value |-> r.value, requests |-> r.requests,
          cache |-> CachePut(cache, mint_address,
                             [value |-> r.value, expires |-> now + ttl])]

\* get_token_metadata
GetTokenMetadata(mint_address, up, cache) ==
    IF CacheHas(cache, mint_address)
    THEN [kind |-> "return", value |-> cache[mint_address].value, cache |-> cache,
          requests |-> 0]
    ELSE CHOOSE x \in
            {StoreAndReturn(cache, mint_address, r, METADATA_TTL) :
                r \in {MetadataFetch(up.account[mint_address])}} : TRUE

\* get_holder_distribution
GetHolderDistribution(mint_address, up, cache) ==
    IF CacheHas(cache, mint_address)
    THEN [kind |-> "return", value |-> cache[mint_address].value, cache |-> cache,
          requests |-> 0]
    ELSE CHOOSE x \in
            {StoreAndReturn(cache, mint_address, r, HOLDER_TTL) :
                r \in {HoldersFetch(up.largest[mint_address],
                                    up.supply[mint_address])}} : TRUE

-----------------------------------------------------------------------------
(* The two request handlers (detector.py).  A TokenInfo keeps the fields   *)
(* the snapshot of the model has; symbol, prices, volume, dex and pair_url *)
(* are copied through by the code in the same way.                         *)

\* lines 128-154 / 216-242: the score and the TokenInfo of one candidate
TokenInfoOf(token_data, metadata, holder_data) ==
    LET s == calculate_trust_score(metadata.mint_authority_enabled,
                                   metadata.freeze_authority_enabled,
                                   holder_data.lp_locked_percent,
                                   holder_data.top_10_percent,
                                   token_data.age_minutes)
    IN  [name |-> token_data.name,
         contract_address |-> token_data.contract_address,
         created_at |-> token_data.created_at,
         age_minutes |-> token_data.age_minutes,
         trust_score |-> s.trust_score,
         risk_level |-> s.risk_level,
         liquidity_usd |-> token_data.liquidity_usd,
         risk_factors |-> s.risk_factors,
         pair_address |-> token_data.pair_address]

\* lines 124-159 / 213-244: one pass of the loop for token_data, once
\* get_token_metadata has ended with m and get_holder_distribution with h: how the
\* pass ends ("" when the loop goes on) and
\* st = [enriched, seen_contracts, metadata, holders, requests] after it
HandlerPass(token_data, m, h, post, limit, st) ==
    LET st1 == [st EXCEPT !.seen_contracts = @ \cup {token_data.contract_address},
                          !.metadata = m.cache,
                          !.requests = @ + m.requests]
    IN  IF m.kind = "raise" THEN [end |-> "raise", st |-> st1]
        ELSE LET st2 == [st1 EXCEPT !.holders = h.cache, !.requests = @ + h.requests]
             IN  IF h.kind = "raise" THEN [end |-> "raise", st |-> st2]
                 ELSE LET st3 == [st2 EXCEPT !.enriched =
                                    Append(@, TokenInfoOf(token_data, m.value, h.value))]
                      IN  IF post /\ Len(st3.enriched) >= limit
                          THEN [end |-> "return", st |-> st3]
                          ELSE [end |-> "", st |-> st3]

\* get_holder_distribution as the pass calls it: not at all once get_token_metadata
\* raised
HoldersOfPass(contract_address, m, up, cache) ==
    IF m.kind = "raise" THEN [kind |-> "raise", cache |-> cache, requests |-> 0]
    ELSE GetHolderDistribution(contract_address, up, cache)

\* the loop over tokens_data from candidate i on; POST skips a contract already seen
\* and leaves the loop at limit tokens, GET does neither
RECURSIVE EnrichLoop(_, _, _, _, _, _)
EnrichLoop(tokens_data, i, post, limit, up, st) ==
    IF i > Len(tokens_data) THEN [kind |-> "return"] @@ st
    ELSE IF post /\ tokens_data[i].contract_address \in st.seen_contracts
    THEN EnrichLoop(tokens_data, i + 1, post, limit, up, st)
    ELSE CHOOSE r \in
            {IF pass.end # "" THEN [kind |-> pass.end] @@ pass.st
             ELSE EnrichLoop(tokens_data, i + 1, post, limit, up, pass.st) :
                pass \in UNION
                    {{HandlerPass(tokens_data[i], m, h, post, limit, st) :
                        h \in {HoldersOfPass(tokens_data[i].contract_address, m, up,
                                             st.holders)}} :
                        m \in {GetTokenMetadata(tokens_data[i].contract_address, up,
                                                st.metadata)}}} : TRUE

\* (mutant) a sort that is not stable: a token goes before the tokens it ties with
RECURSIVE SortByTrustScore_Unstable(_)
SortByTrustScore_Unstable(tokens) ==
    IF tokens = <<>> THEN <<>>
    ELSE LET rest == SortByTrustScore_Unstable(SubSeq(tokens, 1, Len(tokens) - 1))
             x == tokens[Len(tokens)]
             k == Cardinality({j \in 1..Len(rest) : rest[j].trust_score > x.trust_score})
         IN  SubSeq(rest, 1, k) \o <<x>> \o SubSeq(rest, k + 1, Len(rest))

\* enriched_tokens.sort(key=lambda x: x.trust_score, reverse=True): list.sort is
\* stable, also under reverse=True
RECURSIVE SortByTrustScore(_)
SortByTrustScore(tokens) ==
    IF tokens = <<>> THEN <<>>
    ELSE LET rest == SortByTrustScore(SubSeq(tokens, 1, Len(tokens) - 1))
             x == tokens[Len(tokens)]
             k == Cardinality({j \in 1..Len(rest) : rest[j].trust_score >= x.trust_score})
         IN  SubSeq(rest, 1, k) \o <<x>> \o SubSeq(rest, k + 1, Len(rest))

\* a request parameter of POST as params.get(...) delivers it: Absent, a JSON number
\* IntParam(n), or the text of a number StrParam(n) (always the case for "query")
IntParam(n) == [t |-> "int", v |-> n]
StrParam(n) == [t |-> "str", v |-> n]

\* "if limit_raw:"
ParamGiven(raw) == Truthy(raw) /\ (raw.t = "int" => raw.v # 0)

\* lines 163-165 / 248-250
CacheAge(cached, cached_at) ==
    IF cached /\ Truthy(cached_at) THEN IntParam(now - cached_at.v) ELSE NoneV

\* lines 114-175 / 208-260: the response once get_latest_solana_tokens returned g and
\* the loop over g.tokens ended with r
ResponseOf(g, r) ==
    IF r.kind = "raise" THEN [kind |-> "error"]
    ELSE [kind |-> "tokens",
          count |-> Len(r.enriched),
          tokens |-> SortByTrustScore(r.enriched),
          cached |-> g.cached,
          cache_age_seconds |-> CacheAge(g.cached, g.cached_at)]

\* lines 99-175 / 197-260, once get_latest_solana_tokens has ended with g.
\* An exception that leaves the handler is the response "error" (HTTP 500).
DetectWith(g, post, limit, up, caches) ==
    IF g.kind = "raise"
    THEN [response |-> [kind |-> "error"], tokens_data |-> <<>>,
          caches |-> [caches EXCEPT !.token = g.cache], requests |-> g.requests]
    ELSE IF g.tokens = <<>>
    THEN [response |-> [kind |-> "empty"], tokens_data |-> <<>>,
          caches |-> [caches EXCEPT !.token = g.cache], requests |-> g.requests]
    ELSE CHOOSE x \in
            {[response |-> ResponseOf(g, r),
              tokens_data |-> g.tokens,
              caches |-> [token |-> g.cache, metadata |-> r.metadata,
                          holders |-> r.holders],
              requests |-> r.requests] :
                r \in {EnrichLoop(g.tokens, 1, post, limit, up,
                                  [enriched |-> <<>>, seen_contracts |-> {},
                                   metadata |-> caches.metadata,
                                   holders |-> caches.holders,
                                   requests |-> g.requests])}} : TRUE

\* lines 94-175 / 192-260: from the call of get_latest_solana_tokens to the response
Detect(post, limit, min_liquidity, up, caches) ==
    CHOOSE x \in
        {DetectWith(g, post, limit, up, caches) :
            g \in {GetLatestSolanaTokens(IF post THEN limit * 2 ELSE limit,
                                         min_liquidity, up, caches.token)}} : TRUE

\* lines 84-86: limit of detect_meme_coins
LimitOfPost(limit_raw) ==
    IF ParamGiven(limit_raw) THEN Min2(limit_raw.v, max_tokens_limit)
    ELSE default_tokens_limit

\* lines 88-90: min_liquidity of detect_meme_coins
MinLiquidityOfPost(min_liq_raw) ==
    IF ParamGiven(min_liq_raw) THEN min_liq_raw.v ELSE default_min_liquidity

\* lines 183-185: limit of detect_meme_coins_get
LimitOfGet(limit) ==
    Min2(IF limit.t = "none" THEN default_tokens_limit ELSE limit.v, max_tokens_limit)

\* lines 187-188: min_liquidity of detect_meme_coins_get
MinLiquidityOfGet(min_liquidity) ==
    IF min_liquidity.t = "none" THEN default_min_liquidity ELSE min_liquidity.v

\* detect_meme_coins (POST), lines 52-175, from the parameters read off the body
DetectMemeCoins(limit_raw, min_liq_raw, is_empty_body, up, caches) ==
    IF ~ParamGiven(limit_raw) /\ ~ParamGiven(min_liq_raw) /\ is_empty_body
    THEN [response |-> [kind |-> "ready"], tokens_data |-> <<>>, caches |-> caches,
          requests |-> 0]
    ELSE IF \/ ParamGiven(limit_raw) /\ limit_raw.t = "badstr"      \* int(limit_raw)
            \/ ParamGiven(min_liq_raw) /\ min_liq_raw.t = "badstr"  \* float(min_liq_raw)
    THEN [response |-> [kind |-> "error"], tokens_data |-> <<>>, caches |-> caches,
          requests |-> 0]
    ELSE Detect(TRUE, LimitOfPost(limit_raw), MinLiquidityOfPost(min_liq_raw), up, caches)

\* detect_meme_coins_get (GET), lines 183-260: limit and min_liquidity are a number or
\* NoneV when the query string leaves them out
DetectMemeCoinsGet(limit, min_liquidity, up, caches) ==
    Detect(FALSE, LimitOfGet(limit), MinLiquidityOfGet(min_liquidity), up, caches)

-----------------------------------------------------------------------------
(* Specification SpecPipeline: a fresh process (the three caches empty)    *)
(* serves one request, POST or GET, against an upstream chosen from the    *)
(* answers below.                                                          *)

\* Bound: the longest answer of a listing endpoint.
MaxListing == 2

PlAddrs == {"A", "B"}

\* what a listing can name: the two Solana tokens and a token of another chain
ListingEntries == {<<"solana", "A">>, <<"solana", "B">>, <<"ethereum", "E">>}

\* the names the profiles of a listing carry, by position
ListingNames ==
    [boosted |-> <<"boosted-1", "boosted-2", "boosted-3", "boosted-4">>,
     profiles |-> <<"profile-1", "profile-2", "profile-3", "profile-4">>]

Listings(which) ==
    UNION {{[i \in 1..n |-> TokenProfile(f[i][1], f[i][2], ListingNames[which][i])] :
                f \in [1..n -> ListingEntries]} : n \in 0..MaxListing}

\* "pairs by token address": one pair above the default floor, created two hours
\* before the process started and without a base-token name; or no pair (404).
\* PairsScript also knows the kind "unreachable": the connection fails.
PairKinds == {"listed", "unlisted"}

PairsScript(kind, a) ==
    CASE kind = "listed" ->
            <<Response(200, JsonList(<<TradingPair("", Usd(5000), CreatedAt(-7200), a)>>))>>
      [] kind = "unreachable" -> <<ClientError>>
      [] OTHER -> <<Response(404, InvalidJson)>>

\* the on-chain reads of a token:
\*   "clean"          both authorities revoked, 90 % of the supply in a burn address
\*   "unavailable"    every read answers HTTP 500
\*   "account_error"  the connection of getAccountInfo fails
\*   "holders_error"  the connection of getTokenLargestAccounts fails
OnChainKinds == {"clean", "unavailable", "account_error", "holders_error"}

CleanAccount == RpcOk(AccountValue(ListV(<<B64(MintBlob(MINT_ACCOUNT_LEN, 0, 0)), "base64">>)))

CleanLargest ==
    RpcOk(ListV(<<TokenAccount(<<"1nc1nerator11111111111111111111111111111111">>,
                               AmountStr(900)),
                  TokenAccount(<<"holder">>, AmountStr(100))>>))

AccountScript(kind) ==
    CASE kind = "unavailable" -> <<Response(500, InvalidJson)>>
      [] kind = "account_error" -> <<ClientError>>
      [] OTHER -> <<CleanAccount>>

LargestScript(kind) ==
    CASE kind = "unavailable" -> <<Response(500, InvalidJson)>>
      [] kind = "holders_error" -> <<ClientError>>
      [] OTHER -> <<CleanLargest>>

SupplyScript(kind) ==
    IF kind = "unavailable" THEN <<Response(500, InvalidJson)>>
    ELSE <<RpcOk(SupplyValue(AmountStr(1000)))>>

\* the answers of upstream for listings b and p, pairs of kinds pk and on-chain reads
\* of kinds ck
Upstream(w) ==
    [boosted |-> Response(200, JsonList(w.boosted)),
     profiles |-> Response(200, JsonList(w.profiles)),
     pairs |-> [a \in PlAddrs |-> PairsScript(w.pairs[a], a)],
     account |-> [a \in PlAddrs |-> AccountScript(w.onchain[a])],
     largest |-> [a \in PlAddrs |-> LargestScript(w.onchain[a])],
     supply |-> [a \in PlAddrs |-> SupplyScript(w.onchain[a])]]

Caches == [token |-> token_cache, metadata |-> metadata_cache, holders |-> holder_cache]

\* the request is served: the response and the caches as the handler left them
Served(request, out) ==
    /\ rq' = request
    /\ rqCandidates' = out.tokens_data
    /\ rqResponse' = out.response
    /\ token_cache' = out.caches.token
    /\ metadata_cache' = out.caches.metadata
    /\ holder_cache' = out.caches.holders
    /\ rqPc' = "done"
    /\ UNCHANGED <<upstream, clockVars, notRequest>>

\* the upstream the request will see
PlUpstream ==
    /\ rqPc = "idle"
    /\ \E b \in Listings("boosted"), p \in Listings("profiles"),
          pk \in [PlAddrs -> PairKinds], ck \in [PlAddrs -> OnChainKinds] :
            upstream' = [boosted |-> b, profiles |-> p, pairs |-> pk, onchain |-> ck]
    /\ rqPc' = "ready"
    /\ UNCHANGED <<rq, rqCandidates, rqResponse, cacheVars, metadata_cache, clockVars,
                   notRequest>>

\* POST /solana-meme-detector with a JSON body that is not empty
PlPost ==
    /\ rqPc = "ready"
    /\ \E limit_raw \in {Absent, IntParam(1), IntParam(2)} :
        \E up \in {Upstream(upstream)}, caches \in {Caches} :
            \E out \in {DetectMemeCoins(limit_raw, Absent, FALSE, up, caches)} :
                Served([method |-> "POST", limit |-> limit_raw,
                        min_liquidity |-> Absent], out)

\* GET /solana-meme-detector
PlGet ==
    /\ rqPc = "ready"
    /\ \E limit \in {NoneV, IntParam(1), IntParam(2)} :
        \E up \in {Upstream(upstream)}, caches \in {Caches} :
            \E out \in {DetectMemeCoinsGet(limit, NoneV, up, caches)} :
                Served([method |-> "GET", limit |-> limit, min_liquidity |-> NoneV],
                       out)

NextPipeline == PlUpstream \/ PlPost \/ PlGet

SpecPipeline == Init /\ [][NextPipeline]_vars

-----------------------------------------------------------------------------
(* Specification SpecMarket: callers of get_latest_solana_tokens that run  *)
(* concurrently on the event loop.  A call tests the cache when it is      *)
(* made; on a miss it awaits the listings and pairs, during which other    *)
(* calls run, and then stores and returns what it fetched.  Upstream may   *)
(* answer each fetch differently.                                          *)

\* Bound: how many calls are made in all.
MaxCalls == 3

Callers == {"c1", "c2"}

\* the limits a caller asks for: both callers share the key of limit 1, and
\* c1 also uses a key of its own
MarketLimits == [c1 |-> {1, 2}, c2 |-> {1}]

\* what upstream answers while a call fetches: both tokens boosted; one boosted and
\* one among the profiles; the boosted listing unreachable; the pairs endpoint
\* unreachable
MarketUpstreams ==
    LET entry(which, i, a) == TokenProfile("solana", a, ListingNames[which][i])
        world(b, p) == Upstream([boosted |-> b, profiles |-> p,
                                 pairs |-> [a \in PlAddrs |-> "listed"],
                                 onchain |-> [a \in PlAddrs |-> "clean"]])
    IN  {world(<<entry("boosted", 1, "A"), entry("boosted", 2, "B")>>, <<>>),
         world(<<entry("boosted", 1, "B")>>, <<entry("profiles", 1, "A")>>),
         [world(<<>>, <<>>) EXCEPT !.boosted = ClientError],
         [world(<<entry("boosted", 1, "A")>>, <<>>) EXCEPT
            !.pairs = [a \in PlAddrs |-> PairsScript("unreachable", a)]]}

\* what the caller gets of the outcome r of a call
Returned(r) ==
    IF r.kind = "raise" THEN [kind |-> "raise", requests |-> r.requests]
    ELSE [kind |-> "return", tokens |-> r.tokens, cached |-> r.cached,
          cached_at |-> r.cached_at, requests |-> r.requests]

\* lines 28-33: the call is made; the cache test, and the return on a hit
GlCall(c) ==
    /\ glPc[c] \in {"idle", "done"}      \* the caller has no call under way
    /\ glCalls < MaxCalls
    /\ glCalls' = glCalls + 1
    /\ \E limit \in MarketLimits[c] :
        LET cache_key == TokenCacheKey(limit, default_min_liquidity)
            call == [limit |-> limit, min_liquidity |-> default_min_liquidity,
                     key |-> cache_key, at |-> now,
                     writes_before |-> Len(glWrites),
                     during |-> {d \in Callers : /\ glPc[d] = "fetching"
                                                 /\ glCall[d].key = cache_key}]
        IN  /\ glCall' = [d \in Callers |->
                            IF d = c THEN call
                            ELSE IF glPc[d] = "done"
                            THEN [glCall[d] EXCEPT !.during = @ \ {c}]
                            ELSE glCall[d]]
            /\ IF CacheHas(token_cache, cache_key)
               THEN /\ glPc' = [glPc EXCEPT ![c] = "done"]
                    /\ glOut' = [glOut EXCEPT ![c] =
                                    Returned(LatestFromCache(token_cache, cache_key))]
               ELSE /\ glPc' = [glPc EXCEPT ![c] = "fetching"]
                    /\ glOut' = [glOut EXCEPT ![c] = None]
    /\ UNCHANGED <<token_cache, glWrites, clockVars, notMarket>>

\* lines 35-47: the listings are fetched; the result is stored and returned, or an
\* exception leaves the call
GlFetched(c) ==
    /\ glPc[c] = "fetching"
    /\ \E up \in MarketUpstreams :
        \E f \in {FetchLatest(glCall[c].limit, glCall[c].min_liquidity, up)} :
        \E out \in {LatestFromFetch(token_cache, glCall[c].key, f)} :
            /\ glOut' = [glOut EXCEPT ![c] = Returned(out)]
            /\ token_cache' = out.cache
            /\ glWrites' = IF out.kind = "raise" THEN glWrites
                           ELSE Append(glWrites, [key |-> glCall[c].key, at |-> now,
                                                  tokens |-> out.tokens, by |-> c])
    /\ glPc' = [glPc EXCEPT ![c] = "done"]
    /\ UNCHANGED <<glCall, glCalls, clockVars, notMarket>>

GlTick ==
    /\ Tick(cache_ttl_seconds)
    /\ UNCHANGED <<token_cache, marketVars, notMarket>>

NextMarket ==
    \/ \E c \in Callers : GlCall(c)
    \/ \E c \in Callers : GlFetched(c)
    \/ GlTick

SpecMarket == Init /\ [][NextMarket]_vars

-----------------------------------------------------------------------------
(* Claims about the rate-limited calls, under SpecRetry / SpecRetryFair.   *)

Is429(resp) == ~resp.exc /\ resp.status = 429

C9_Safety ==
    /\ Len(rlLog) <= 3
    \* a further request was sent only after a 429
    /\ \A i \in 1..(Len(rlLog) - 1) : Is429(rlLog[i])
    \* one sleep per 429 received, of 1, 2, 4 seconds
    /\ Len(rlSleeps) = Cardinality({i \in 1..Len(rlLog) : Is429(rlLog[i])})
    /\ rlSleeps = SubSeq(<<1, 2, 4>>, 1, Len(rlSleeps))
    \* any other exchange ends the call at once
    /\ (Len(rlLog) > 0 /\ ~Is429(rlLog[Len(rlLog)])) => rlPc = "done"
    \* three 429s in a row end in the failure result
    /\ (rlPc = "done" /\ Len(rlLog) = 3 /\ Is429(rlLog[3])) =>
            /\ rlResult.kind = "return"
            /\ rlResult.value = (IF rlCall = "_get_token_largest_accounts"
                                 THEN ListV(<<>>) ELSE NoneV)

\* C9: each rate-limited call sends at most 3 requests, sends a further request
\* only when the previous response was HTTP 429, waits 2^attempt seconds (1, 2, 4)
\* after a 429, ends at once without retrying on any other outcome, and always
\* terminates: three consecutive 429 responses yield the failure result.
C9_BoundedRetryOn429Only ==
    /\ []C9_Safety
    /\ (rlPc = "request") ~> (rlPc = "done")

\* C9 witness: a call throttled on all three attempts has ended.
C9_Witness ==
    /\ rlPc = "done"
    /\ Len(rlLog) = 3 /\ Is429(rlLog[3])
    /\ rlSleeps = <<1, 2, 4>>
    /\ rlResult.kind = "return"

\* C10: a rate-limited call never raises to its caller: for every upstream outcome
\* (any status, a connection error or timeout, a 200 response whose body is not
\* JSON or not of the expected shape) it returns the response value or the
\* failure / absent result.
C10_NeverRaises ==
    rlPc = "done" => rlResult.kind = "return"

-----------------------------------------------------------------------------
(* Claims about get_token_metadata, under SpecMint.                        *)

\* the exchange carried an account whose data decodes to a blob
CarriesBlob(src) ==
    /\ ~src.exc /\ src.status = 200
    /\ src.body.t = "object" /\ ~src.body.error
    /\ src.body.result.t = "object"
    /\ src.body.result.value.t = "account"
    /\ src.body.result.value.data.t = "list"
    /\ Len(src.body.result.value.data.items) >= 1
    /\ src.body.result.value.data.items[1].t = "b64"

BlobOf(src) == src.body.result.value.data.items[1].bytes

\* the outcomes of the account read that the claim lists
C6_ListedFailure(src) ==
    /\ ~src.exc
    /\ \/ src.status # 200                                      \* non-200, three 429s
       \/ src.body.t = "object" /\ src.body.error               \* RPC error
       \/ /\ src.body.t = "object" /\ ~src.body.error           \* no account value
          /\ \/ src.body.result.t # "object"
             \/ src.body.result.value.t \in {"absent", "none"}

\* C6: get_token_metadata reports mint (freeze) authority inactive only when an
\* account blob of at least 82 bytes was read and its byte 0 (byte 46) is not 1; on
\* a non-200 status, an RPC error, a missing account value or three throttled
\* attempts it returns both authorities active with decimals 9 and supply 0.
C6_InactiveOnlyOnProof ==
    mtPc = "done" =>
        LET src == mtResult.src
            proof == CarriesBlob(src) /\ Len(BlobOf(src)) >= 82
        IN  /\ mtResult.kind = "return" =>
                /\ ~mtResult.value.mint_authority_enabled =>
                        proof /\ BlobOf(src)[0 + 1] # 1
                /\ ~mtResult.value.freeze_authority_enabled =>
                        proof /\ BlobOf(src)[46 + 1] # 1
            /\ C6_ListedFailure(src) =>
                /\ mtResult.kind = "return"
                /\ mtResult.value = [mint_authority_enabled |-> TRUE,
                                     freeze_authority_enabled |-> TRUE,
                                     decimals |-> 9, supply |-> 0]

\* C6 witness: a call that read an 82-byte blob with both option bytes clear has
\* returned both authorities inactive.
C6_Witness ==
    /\ mtPc = "done" /\ mtResult.kind = "return" /\ ~mtResult.hit
    /\ CarriesBlob(mtResult.src) /\ Len(BlobOf(mtResult.src)) = 82
    /\ ~mtResult.value.mint_authority_enabled
    /\ ~mtResult.value.freeze_authority_enabled

-----------------------------------------------------------------------------
(* Claims about the request handlers, under SpecPipeline.                  *)

ResponseTokens == rqResponse.tokens

InResponse(contract_address) ==
    \E j \in DOMAIN ResponseTokens : ResponseTokens[j].contract_address = contract_address

\* the reads the handler makes for a candidate, made once the request has ended
MetadataRead(token_data) ==
    GetTokenMetadata(token_data.contract_address, Upstream(upstream), metadata_cache)

HoldersRead(token_data) ==
    GetHolderDistribution(token_data.contract_address, Upstream(upstream), holder_cache)

\* C3: among the unique candidates the market-data source supplied for the request,
\* no candidate left out of the response has a trust score strictly higher than a
\* token that is in the response.
C3_ResponseIsTopNByScore ==
    rqPc = "done" /\ rqResponse.kind = "tokens" =>
        \A i \in DOMAIN rqCandidates :
            LET c == rqCandidates[i]
                m == MetadataRead(c)
                h == HoldersRead(c)
            IN  ~InResponse(c.contract_address) /\ m.kind = "return" /\ h.kind = "return" =>
                    \A j \in DOMAIN ResponseTokens :
                        TokenInfoOf(c, m.value, h.value).trust_score
                            <= ResponseTokens[j].trust_score

\* the first candidate of tokens_data with the contract address
FirstSeen(contract_address) ==
    CHOOSE k \in DOMAIN rqCandidates :
        /\ rqCandidates[k].contract_address = contract_address
        /\ \A l \in 1..(k - 1) : rqCandidates[l].contract_address # contract_address

\* C4: in every response batch, of POST and of GET alike, no two tokens share a
\* contract address, and the token of an address carries the data of the first
\* candidate the market-data source delivered for that address.
C4_OneTokenPerContractFirstSeenWins ==
    rqPc = "done" /\ rqResponse.kind = "tokens" =>
        /\ \A i, j \in DOMAIN ResponseTokens :
                i # j => ResponseTokens[i].contract_address
                            # ResponseTokens[j].contract_address
        /\ \A i \in DOMAIN ResponseTokens :
                ResponseTokens[i].name
                    = rqCandidates[FirstSeen(ResponseTokens[i].contract_address)].name

\* C5: when an upstream read for one token fails, the request still completes with
\* scored entries, and the token whose read failed is scored with the cautious
\* defaults.
C5_FailedReadNeverAbortsRequest ==
    rqPc = "done" /\ rqCandidates # <<>> =>
        /\ rqResponse.kind = "tokens"
        /\ \A j \in DOMAIN ResponseTokens :
            LET t == ResponseTokens[j]
                reads == upstream.onchain[t.contract_address]
            IN  /\ reads \in {"unavailable", "account_error"} =>
                    /\ t.risk_factors.mint_authority_enabled
                    /\ t.risk_factors.freeze_authority_enabled
                /\ reads \in {"unavailable", "holders_error"} =>
                    /\ t.risk_factors.top_10_holder_percent = DefaultTop10
                    /\ t.risk_factors.lp_locked_percent = DefaultLpLocked

-----------------------------------------------------------------------------
(* Claims about the market-data cache, under SpecMarket.                   *)

\* the call of caller c was made within the TTL of write k to its key, after it
MadeWithinTtlOf(c, k) ==
    /\ k <= glCall[c].writes_before
    /\ glWrites[k].key = glCall[c].key
    /\ glCall[c].at < glWrites[k].at + cache_ttl_seconds

\* the call of caller c returned what write k stored, from the cache
ServedFromWrite(c, k) ==
    /\ glOut[c].kind = "return"
    /\ glOut[c].tokens = glWrites[k].tokens
    /\ glOut[c].cached
    /\ glOut[c].cached_at = TimeV(glWrites[k].at)
    /\ glOut[c].requests = 0

\* C8 as stated: a call made with the same (limit, min_liquidity) within the TTL of
\* a first call's cache write returns the list the first call stored, fromCache =
\* true, the time the first call stored the entry, and sends no upstream request.
C8_SecondCallServedFromFirstWrite ==
    \A c \in Callers :
        glPc[c] = "done" =>
            \A k \in DOMAIN glWrites :
                MadeWithinTtlOf(c, k) => ServedFromWrite(c, k)

\* C8 amended: the call is served from the latest write to its key made before it:
\* the first call's, unless another call that had missed stored the key after it.
C8_SecondCallServedFromLatestWrite ==
    \A c \in Callers :
        glPc[c] = "done" =>
            \A k \in DOMAIN glWrites :
                /\ MadeWithinTtlOf(c, k)
                /\ \A l \in (k + 1)..glCall[c].writes_before :
                        glWrites[l].key # glCall[c].key
                => ServedFromWrite(c, k)

\* C8 witness: a call made 59 seconds after another call stored a list that is not
\* empty has been served from the cache.
C8_Witness ==
    \E c \in Callers :
        /\ glPc[c] = "done"
        /\ glOut[c].kind = "return"
        /\ glOut[c].cached
        /\ glOut[c].tokens # <<>>
        /\ \E k \in DOMAIN glWrites :
            /\ MadeWithinTtlOf(c, k)
            /\ glWrites[k].by # c
            /\ glCall[c].at = glWrites[k].at + cache_ttl_seconds - 1

-----------------------------------------------------------------------------
(* Further claims about the rate-limited calls, under SpecRetry.           *)

\* the scripts of get_token_pairs that are a transport failure: another non-success
\* status, or three throttled attempts
TransportFailureScripts ==
    {<<Response(500, InvalidJson)>>, <<Throttled, Throttled, Throttled>>}

\* C11: for an HTTP 404 response get_token_pairs returns an 'absent' result that
\* differs from the result it returns for a transport failure (another non-success
\* status, or three throttled attempts).
C11_NotFoundDistinctFromFailure ==
    (/\ rlPc = "done" /\ rlCall = "get_token_pairs"
     /\ ~rlLog[Len(rlLog)].exc /\ rlLog[Len(rlLog)].status = 404)
    => \A script \in TransportFailureScripts :
            RunCall("get_token_pairs", script).value # rlResult.value

-----------------------------------------------------------------------------
(* Further claims about the request handlers, under SpecPipeline.          *)

\* the place of a token in the order of discovery: the candidates of tokens_data are
\* told apart by their names, also when they share a contract address
Discovered(token) ==
    CHOOSE k \in DOMAIN rqCandidates : rqCandidates[k].name = token.name

\* C12: the returned list is ordered by non-increasing trust_score, and two tokens
\* with equal trust_score keep the order in which they were discovered.
C12_SortedByScoreStable ==
    rqPc = "done" /\ rqResponse.kind = "tokens" =>
        \A i, j \in DOMAIN ResponseTokens :
            i < j =>
                /\ ResponseTokens[i].trust_score >= ResponseTokens[j].trust_score
                /\ ResponseTokens[i].trust_score = ResponseTokens[j].trust_score =>
                        Discovered(ResponseTokens[i]) < Discovered(ResponseTokens[j])

\* C12 witness: a response of three tokens or more in which two tokens tie and the
\* token discovered first is not the first of the list.
C12_Witness ==
    /\ rqPc = "done" /\ rqResponse.kind = "tokens"
    /\ Len(ResponseTokens) >= 3
    /\ \E i, j \in DOMAIN ResponseTokens :
            i # j /\ ResponseTokens[i].trust_score = ResponseTokens[j].trust_score
    /\ Discovered(ResponseTokens[1]) # 1

-----------------------------------------------------------------------------
(* Specification SpecQuota: a fresh process serves one request whose limit *)
(* and min_liquidity are in or out of range, against a boosted listing of  *)
(* up to MaxBoosted Solana tokens whose on-chain reads all succeed.        *)

\* Bound: the longest boosted listing of SpecQuota.
MaxBoosted == 6

QuotaNames == <<"q1", "q2", "q3", "q4", "q5", "q6", "q7", "q8">>

\* a boosted listing of n Solana tokens, A and B in turn
QuotaBoosted(n) ==
    [i \in 1..n |-> TokenProfile("solana", IF i % 2 = 1 THEN "A" ELSE "B", QuotaNames[i])]

\* the profiles listing: empty, or the token A
QuotaProfiles == {<<>>, <<TokenProfile("solana", "A", "profile-1")>>}

\* the limits and the floors a request can carry: none, and numbers in and out of the
\* range [1, max_tokens_limit] and of the range >= 0
QuotaLimits == {-1, 0, 1, 3, max_tokens_limit + 10}
QuotaFloors == {-5}

\* the upstream the request will see
QtUpstream ==
    /\ rqPc = "idle"
    /\ \E n \in 0..MaxBoosted, p \in QuotaProfiles, pk \in [PlAddrs -> PairKinds] :
            upstream' = [boosted |-> QuotaBoosted(n), profiles |-> p, pairs |-> pk,
                         onchain |-> [a \in PlAddrs |-> "clean"]]
    /\ rqPc' = "ready"
    /\ UNCHANGED <<rq, rqCandidates, rqResponse, cacheVars, metadata_cache, clockVars,
                   notRequest>>

\* POST /solana-meme-detector with a JSON body that is not empty
QtPost ==
    /\ rqPc = "ready"
    /\ \E limit_raw \in {Absent} \cup {IntParam(n) : n \in QuotaLimits},
          min_liq_raw \in {Absent} \cup {IntParam(n) : n \in QuotaFloors} :
        \E up \in {Upstream(upstream)}, caches \in {Caches} :
            \E out \in {DetectMemeCoins(limit_raw, min_liq_raw, FALSE, up, caches)} :
                Served([method |-> "POST", limit |-> limit_raw,
                        min_liquidity |-> min_liq_raw], out)

\* GET /solana-meme-detector
QtGet ==
    /\ rqPc = "ready"
    /\ \E limit \in {NoneV} \cup {IntParam(n) : n \in QuotaLimits},
          min_liquidity \in {NoneV} \cup {IntParam(n) : n \in QuotaFloors} :
        \E up \in {Upstream(upstream)}, caches \in {Caches} :
            \E out \in {DetectMemeCoinsGet(limit, min_liquidity, up, caches)} :
                Served([method |-> "GET", limit |-> limit,
                        min_liquidity |-> min_liquidity], out)

NextQuota == QtUpstream \/ QtPost \/ QtGet

SpecQuota == Init /\ [][NextQuota]_vars

-----------------------------------------------------------------------------
(* Claims about the quota of a request, under SpecQuota.                   *)

\* the limit of the handler that served the request
LimitOfRequest ==
    IF rq.method = "POST" THEN LimitOfPost(rq.limit) ELSE LimitOfGet(rq.limit)

\* the limit with which the handler called get_latest_solana_tokens
LimitOfLatest ==
    IF rq.method = "POST" THEN LimitOfPost(rq.limit) * 2 ELSE LimitOfGet(rq.limit)

\* C13: a request enriches at most `limit` tokens: the response holds at most `limit`
\* tokens, and a mint-state or holder lookup was made only for the tokens of the
\* response.
C13_AtMostLimitEnriched ==
    rqPc = "done" =>
        /\ rqResponse.kind = "tokens" => Len(ResponseTokens) <= LimitOfRequest
        /\ \A a \in DOMAIN metadata_cache \cup DOMAIN holder_cache :
                rqResponse.kind = "tokens" /\ InResponse(a)


\* the candidates the boosted listing, and the profiles listing, contributed
FromBoosted ==
    SelectSeq(rqCandidates, LAMBDA t : \E i \in DOMAIN QuotaNames : t.name = QuotaNames[i])

FromProfiles ==
    SelectSeq(rqCandidates, LAMBDA t : \A i \in DOMAIN QuotaNames : t.name # QuotaNames[i])

\* C14: on a cache miss get_latest_solana_tokens returns at most `limit` entries; the
\* profiles listing contributes only when the boosted listing yielded fewer than
\* `limit` entries, and at most `limit` minus the number already collected.
C14_AtMostLimitCollected ==
    rqPc = "done" =>
        /\ Len(rqCandidates) <= LimitOfLatest
        /\ FromProfiles # <<>> => Len(FromBoosted) < LimitOfLatest
        /\ Len(FromProfiles) <= LimitOfLatest - Len(FromBoosted)

-----------------------------------------------------------------------------
(* Further claims about the scorer, under SpecScorer.                      *)

WeightsSum ==
    WEIGHT_MINT_AUTHORITY + WEIGHT_FREEZE_AUTHORITY + WEIGHT_LP_LOCKED
    + WEIGHT_HOLDER_CONCENTRATION + WEIGHT_TOKEN_AGE

\* C15 (as stated): each of the five factor sub-scores is a member of
\* {0, 20, 40, 60, 80, 100}, and the five weights sum to 100.
C15_SubScoresInSixValues ==
    /\ WeightsSum = 100
    /\ scPc # "idle" =>
        \A factor \in DOMAIN scOut.scores : scOut.scores[factor] \in {0, 20, 40, 60, 80, 100}

\* C15 (amended): the two authority sub-scores are 0 or 100, the lpLocked sub-score
\* is a member of {0, 20, 40, 60, 85, 100}, the holder-concentration and token-age
\* sub-scores are members of {0, 20, 40, 60, 80, 100}, and the five weights sum to 100.
C15_SubScoresInBandValues ==
    /\ WeightsSum = 100
    /\ scPc # "idle" =>
        /\ scOut.scores.mint_authority \in {0, 100}
        /\ scOut.scores.freeze_authority \in {0, 100}
        /\ scOut.scores.lp_locked \in {0, 20, 40, 60, 85, 100}
        /\ scOut.scores.holder_concentration \in {0, 20, 40, 60, 80, 100}
        /\ scOut.scores.token_age \in {0, 20, 40, 60, 80, 100}

\* C15 witness: a call scored in the band of lpLocked between 80 and 90 %.
C15_Witness ==
    /\ scPc = "scored"
    /\ scIn.lp >= 8000 /\ scIn.lp < 9000
    /\ scOut.scores.lp_locked = 85
    /\ scOut.scores.holder_concentration = 40

\* C16 (as stated): lpLockedPercent = 90.0 gives the lpLocked sub-score 100, and
\* lpLockedPercent = 89.99 gives the lpLocked sub-score 60.
C16_BelowNinetyScoresSixty ==
    scPc # "idle" =>
        /\ scIn.lp = 9000 => scOut.scores.lp_locked = 100
        /\ scIn.lp = 8999 => scOut.scores.lp_locked = 60

\* C16 (amended): lpLockedPercent = 90.0 gives the lpLocked sub-score 100, and
\* lpLockedPercent = 89.99 gives the lpLocked sub-score 85, the score of the band
\* from 80 % on.
C16_BelowNinetyScoresEightyFive ==
    scPc # "idle" =>
        /\ scIn.lp = 9000 => scOut.scores.lp_locked = 100
        /\ scIn.lp = 8999 => scOut.scores.lp_locked = 85

\* C16 witness: a call with lpLockedPercent = 89.99 has been scored.
C16_Witness ==
    /\ scPc = "scored"
    /\ scIn.lp = 8999
    /\ scOut.scores.lp_locked = 85

-----------------------------------------------------------------------------
(* Further claims about the on-chain reads of a request, under SpecPipeline. *)

\* the handler called get_holder_distribution for a: it does so as soon as
\* get_token_metadata has returned for a, which leaves a in metadata_cache
HoldersAsked(a) == a \in DOMAIN metadata_cache

\* the getTokenLargestAccounts read of a is unavailable: HTTP 500, or no connection
LargestUnavailable(a) == upstream.onchain[a] \in {"unavailable", "holders_error"}

\* C17: whenever the largest-accounts read is unavailable, get_holder_distribution
\* returns the cautious defaults (total holders 0, top10 = 50.0, lpLocked = 0.0, empty
\* breakdown), never a top10 below 50 or an lpLocked above 0.
C17_UnavailableGivesDefaults ==
    rqPc = "done" =>
        \A a \in PlAddrs :
            HoldersAsked(a) /\ LargestUnavailable(a) =>
                /\ a \in DOMAIN holder_cache
                /\ holder_cache[a].value = DefaultHolders
                /\ holder_cache[a].value.top_10_percent >= 50 * 100
                /\ holder_cache[a].value.lp_locked_percent <= 0


\* the (limit, min_liquidity) with which get_latest_solana_tokens was called: the key
\* under which the call stored its list in the cache of the fresh process
LatestCalledWith == DOMAIN token_cache

\* C18: whatever limit and min_liquidity a request carries, the limit with which the
\* handler calls get_latest_solana_tokens is within [1, max_tokens_limit] and the
\* min_liquidity is >= 0.
C18_ParametersClamped ==
    rqPc = "done" =>
        \A called \in LatestCalledWith :
            /\ called[1] \in 1..max_tokens_limit
            /\ called[2] >= 0

-----------------------------------------------------------------------------
(* Further claims about the cache of market data, under SpecMarket.        *)

\* the finished call of c missed the cache
Missed(c) == glOut[c].kind = "raise" \/ ~glOut[c].cached

\* the calls of c and d have both ended, both missed the same key, and ran concurrently
RacedOnKey(c, d) ==
    /\ c # d
    /\ glPc[c] = "done" /\ glPc[d] = "done"
    /\ glCall[c].key = glCall[d].key
    /\ Missed(c) /\ Missed(d)
    /\ d \in glCall[c].during \/ c \in glCall[d].during

LastWrite == glWrites[Len(glWrites)]

\* C19: when two calls that miss the same cache key run concurrently, both complete
\* with a result, and once both have finished the cache entry of the key is exactly
\* what the call that wrote last stored: never absent, never a mixture.
C19_BothCompleteLastWriterWins ==
    \A c, d \in Callers :
        RacedOnKey(c, d) =>
            /\ glOut[c].kind = "return" /\ glOut[d].kind = "return"
            /\ LastWrite.by \in {c, d} /\ LastWrite.key = glCall[c].key
            /\ glCall[c].key \in DOMAIN token_cache
            /\ token_cache[glCall[c].key].tokens = LastWrite.tokens
            /\ token_cache[glCall[c].key].cached_at = TimeV(LastWrite.at)
            /\ glOut[LastWrite.by].tokens = LastWrite.tokens

-----------------------------------------------------------------------------
(* Further claims about the mint account, under SpecMint.                  *)

\* the account read returned an account, which _parse_mint_account is given
CarriesAccount(src) ==
    /\ ~src.exc /\ src.status = 200
    /\ src.body.t = "object" /\ ~src.body.error
    /\ src.body.result.t = "object"
    /\ src.body.result.value.t = "account"

\* bytes first .. first + 7 of the blob as a little-endian unsigned 64-bit integer
U64At(raw, first) ==
    LET b(i) == raw[first + i + 1]
    IN  b(0) + 256 * (b(1) + 256 * (b(2) + 256 * (b(3) + 256 * (b(4) + 256 * (b(5)
             + 256 * (b(6) + 256 * b(7)))))))

\* C20: for an account blob of at least 82 bytes _parse_mint_account returns mint
\* authority active iff byte 0 = 1, freeze authority active iff byte 46 = 1, decimals
\* = byte 44 and supply = bytes 36..43 as a little-endian unsigned integer; for a
\* shorter blob, or account data that is missing, of the wrong shape or not
\* decodable, it returns both authorities active, decimals 9 and supply 0, and does
\* not raise.
C20_ParsesLayoutOrDefaults ==
    mtPc = "done" /\ CarriesAccount(mtResult.src) =>
        /\ mtResult.kind = "return"
        /\ IF CarriesBlob(mtResult.src) /\ Len(BlobOf(mtResult.src)) >= 82
           THEN LET raw == BlobOf(mtResult.src)
                IN  /\ mtResult.value.mint_authority_enabled <=> raw[0 + 1] = 1
                    /\ mtResult.value.freeze_authority_enabled <=> raw[46 + 1] = 1
                    /\ mtResult.value.decimals = raw[44 + 1]
                    /\ mtResult.value.supply = U64At(raw, 36)
           ELSE mtResult.value = [mint_authority_enabled |-> TRUE,
                                  freeze_authority_enabled |-> TRUE,
                                  decimals |-> 9, supply |-> 0]

-----------------------------------------------------------------------------
(* Claims about the expiry of the market-data cache, under SpecMarket.     *)

\* when the call of c was made, an unexpired entry of exactly its key was in the cache
EntryAtCall(c) == \E k \in DOMAIN glWrites : MadeWithinTtlOf(c, k)

\* the call of c stored what it returned, after it had been made
StoredOwnResult(c) ==
    \E k \in DOMAIN glWrites :
        /\ k > glCall[c].writes_before
        /\ glWrites[k].by = c /\ glWrites[k].key = glCall[c].key
        /\ glWrites[k].tokens = glOut[c].tokens

\* C21: get_latest_solana_tokens reports fromCache = true only if an unexpired entry
\* of exactly its key exists when it is called; a call made after the TTL of the
\* entry has elapsed, or with another key, fetches again, stores the new result and
\* returns fromCache = false with a null cached timestamp.
C21_FromCacheOnlyWhileEntryLives ==
    \A c \in Callers :
        glPc[c] = "done" =>
            /\ (glOut[c].kind = "return" /\ glOut[c].cached) => EntryAtCall(c)
            /\ ~EntryAtCall(c) =>
                /\ glOut[c].kind = "return"
                /\ ~glOut[c].cached
                /\ glOut[c].cached_at = NoneV
                /\ glOut[c].requests >= 1
                /\ StoredOwnResult(c)

-----------------------------------------------------------------------------
(* Specification SpecEnrich: one call of _enrich_tokens on a listing of up *)
(* to MaxCandidates Solana tokens.  The address of a candidate names what  *)
(* the pairs endpoint answers for it.                                      *)

\* Bound: the longest listing handed to _enrich_tokens.
MaxCandidates == 11

\* a pair of the given liquidity created two hours before the process started
PairOf(liquidity, pairAddress) ==
    TradingPair("", liquidity, CreatedAt(-7200), pairAddress)

\* what the pairs endpoint answers for a candidate:
\*   "listed"    one pair of $5000
\*   "unlisted"  no pair (404)
\*   "shallow"   one pair of $500 and one without liquidity data
\*   "mixed"     pairs of $500, $5000, $7000 and $7000, in that order
\*   "undated"   one pair of $5000 without a creation timestamp
\*   "future"    one pair of $5000 created 90 seconds from now
\*   "epoch"     one pair of $5000 whose creation timestamp is 0
CandidateKinds == {"listed", "unlisted", "shallow", "mixed", "undated", "future", "epoch"}

CandidatePairs(kind) ==
    CASE kind = "listed" -> <<Response(200, JsonList(<<PairOf(Usd(5000), "p1")>>))>>
      [] kind = "shallow" ->
            <<Response(200, JsonList(<<PairOf(Usd(500), "p1"), PairOf(Absent, "p2")>>))>>
      [] kind = "mixed" ->
            <<Response(200, JsonList(<<PairOf(Usd(500), "p1"), PairOf(Usd(5000), "p2"),
                                       PairOf(Usd(7000), "p3"), PairOf(Usd(7000), "p4")>>))>>
      [] kind = "undated" ->
            <<Response(200, JsonList(<<TradingPair("", Usd(5000), Absent, "p1")>>))>>
      [] kind = "future" ->
            <<Response(200, JsonList(<<TradingPair("", Usd(5000), CreatedAt(now + 90),
                                                   "p1")>>))>>
      [] kind = "epoch" ->
            <<Response(200, JsonList(<<TradingPair("", Usd(5000), CreatedAt(0), "p1")>>))>>
      [] OTHER -> <<Response(404, InvalidJson)>>

\* the places of a listing where a candidate of another kind may stand: the first
\* two, and the two around the pause
CandidateSpots == {1, 2, PAUSE_EVERY, PAUSE_EVERY + 1}

\* a listing of n candidates, of kind base but for those at spots, of kind other; a
\* candidate is named by its place
Candidates(n, base, spots, other) ==
    [i \in 1..n |-> TokenProfile("solana", IF i \in spots THEN other ELSE base, i)]

\* the limits _enrich_tokens is called with (the handlers pass what the request
\* carries, up to 100), and the liquidity floor
EnrichLimits == {-1, 1, 2, 3, 20}
EnrichFloor == default_min_liquidity

\* _enrich_tokens is called and ends
EnCall ==
    /\ fnPc = "idle"
    /\ \E n \in 0..MaxCandidates, base \in {"listed", "unlisted"},
          spots \in SUBSET CandidateSpots, other \in CandidateKinds,
          limit \in EnrichLimits :
        \E tokens \in {Candidates(n, base, spots, other)} :
        \E out \in {EnrichTokens(tokens, limit, EnrichFloor,
                                 [k \in CandidateKinds |-> CandidatePairs(k)])} :
            /\ fnIn' = [tokens |-> tokens, limit |-> limit, min_liquidity |-> EnrichFloor]
            /\ fnOut' = out
    /\ fnPc' = "done"
    /\ UNCHANGED <<clockVars, notCall>>

\* the caller has the list; the next call may start
EnReturn ==
    /\ fnPc = "done"
    /\ fnPc' = "idle"
    /\ fnIn' = None
    /\ fnOut' = None
    /\ UNCHANGED <<clockVars, notCall>>

NextEnrich == EnCall \/ EnReturn

SpecEnrich == Init /\ [][NextEnrich]_vars

-----------------------------------------------------------------------------
(* Claims about _enrich_tokens, under SpecEnrich.                          *)

\* the pairs upstream lists for the candidate a snapshot was built from
PairsOfSnapshot(snapshot) ==
    CandidatePairs(fnIn.tokens[snapshot.name].tokenAddress)[1].body.items

\* the liquidity of a pair; a pair without liquidity data has none (0)
LiquidityOf(pair) == IF pair.liquidity.t = "dict" THEN pair.liquidity.usd ELSE 0

\* min(limit*5, 100) as a number of candidates: none when it is below zero
LookupCap(limit) ==
    IF limit * 5 < 0 THEN 0 ELSE IF limit * 5 < 100 THEN limit * 5 ELSE 100

\* C22: _enrich_tokens looks up trading pairs for at most min(limit*5, 100)
\* candidates, and every snapshot it returns is built from a pair whose liquidity is
\* >= min_liquidity; a candidate with no pairs, or with no pair meeting the floor,
\* produces no snapshot.
C22_BoundedLookupsFloorRespected ==
    fnPc = "done" =>
        /\ fnOut.processed <= LookupCap(fnIn.limit)
        /\ fnOut.requests = fnOut.processed
        /\ \A j \in DOMAIN fnOut.enriched :
            /\ fnOut.enriched[j].liquidity_usd >= fnIn.min_liquidity
            /\ \E p \in DOMAIN PairsOfSnapshot(fnOut.enriched[j]) :
                /\ LiquidityOf(PairsOfSnapshot(fnOut.enriched[j])[p]) >= fnIn.min_liquidity
                /\ PairsOfSnapshot(fnOut.enriched[j])[p].pairAddress
                        = fnOut.enriched[j].pair_address
            /\ fnOut.enriched[j].contract_address \notin {"unlisted", "shallow"}

\* C24: while _enrich_tokens runs, a pause is taken for every 10 processed
\* candidates: whenever the processed count reaches a multiple of 10 and further
\* candidates are still looked up, the pause was taken before the next lookup,
\* whether or not the 10th candidate yielded a snapshot.
C24_PauseEveryTenProcessed ==
    fnPc = "done" =>
        /\ fnOut.pauses >= (fnOut.processed - 1) \div PAUSE_EVERY
        /\ fnOut.pauses <= fnOut.processed \div PAUSE_EVERY

\* C28: every snapshot has age_minutes >= 0: 0 with created_at null when the
\* selected pair carries no creation timestamp, and otherwise the whole number of
\* minutes from the pair's creation to now.
C28_AgeNeverNegative ==
    fnPc = "done" =>
        \A j \in DOMAIN fnOut.enriched :
            LET snapshot == fnOut.enriched[j]
            IN  /\ snapshot.age_minutes >= 0
                /\ snapshot.created_at = NoneV => snapshot.age_minutes = 0
                /\ snapshot.created_at # NoneV =>
                        /\ 60 * snapshot.age_minutes <= now - snapshot.created_at.v
                        /\ now - snapshot.created_at.v < 60 * (snapshot.age_minutes + 1)

-----------------------------------------------------------------------------
(* Specification SpecSelect: _select_best_pair called on lists of up to    *)
(* MaxPairs pairs.                                                         *)

\* Bound: the longest list of pairs handed to _select_best_pair.
MaxPairs == 3

\* the "liquidity" of a pair: missing, or {"usd": n} around the default floor
LiquiditySamples ==
    {Absent, Usd(0), Usd(default_min_liquidity - 1), Usd(default_min_liquidity),
     Usd(5000)}

\* the lists of pairs; the address of a pair is its place in the list
PairLists ==
    UNION {{[i \in 1..n |-> PairOf(f[i], i)] : f \in [1..n -> LiquiditySamples]} :
                n \in 0..MaxPairs}

SelectFloors == {0, default_min_liquidity}

\* _select_best_pair is called and returns
SbCall ==
    /\ fnPc = "idle"
    /\ \E pairs \in PairLists, min_liquidity \in SelectFloors :
        /\ fnIn' = [pairs |-> pairs, min_liquidity |-> min_liquidity]
        /\ fnOut' = SelectBestPair(pairs, min_liquidity)
    /\ fnPc' = "done"
    /\ UNCHANGED <<clockVars, notCall>>

\* the caller has the pair; the next call may start
SbReturn ==
    /\ fnPc = "done"
    /\ fnPc' = "idle"
    /\ fnIn' = None
    /\ fnOut' = None
    /\ UNCHANGED <<clockVars, notCall>>

NextSelect == SbCall \/ SbReturn

SpecSelect == Init /\ [][NextSelect]_vars

-----------------------------------------------------------------------------
(* Claims about _select_best_pair, under SpecSelect.                       *)

\* the places of the pairs that meet the floor
MeetFloor == {i \in DOMAIN fnIn.pairs : LiquidityOf(fnIn.pairs[i]) >= fnIn.min_liquidity}

\* C23: _select_best_pair returns a pair of maximum liquidity among the pairs whose
\* liquidity is >= min_liquidity, the first such pair in upstream order when several
\* tie for the maximum, and no pair when none meets the floor.
C23_FirstPairOfMaximumLiquidity ==
    fnPc = "done" =>
        IF MeetFloor = {} THEN fnOut = 0
        ELSE /\ fnOut \in MeetFloor
             /\ \A i \in MeetFloor :
                    LiquidityOf(fnIn.pairs[i]) <= LiquidityOf(fnIn.pairs[fnOut])
             /\ \A i \in MeetFloor :
                    LiquidityOf(fnIn.pairs[i]) = LiquidityOf(fnIn.pairs[fnOut]) => fnOut <= i

\* C23 witness: of three pairs, the last two tie for the maximum and the second was
\* returned.
C23_Witness ==
    /\ fnPc = "done"
    /\ Len(fnIn.pairs) = 3
    /\ LiquidityOf(fnIn.pairs[1]) < LiquidityOf(fnIn.pairs[2])
    /\ LiquidityOf(fnIn.pairs[2]) = LiquidityOf(fnIn.pairs[3])
    /\ fnIn.min_liquidity <= LiquidityOf(fnIn.pairs[1])
    /\ fnOut = 2

-----------------------------------------------------------------------------
(* Specification SpecHolders: lines 59-112 of get_holder_distribution run  *)
(* on the accounts and the supply its two reads returned.                   *)

\* the longest list of largest accounts (getTokenLargestAccounts returns up to
\* twenty; one more than TOP_N is enough to have an account outside the slice)
MaxAccounts == 11

\* the addresses of token accounts: a wallet, a burn address, an address that
\* contains the Raydium authority
HolderAddresses ==
    {<<"wallet">>, <<"1nc1nerator11111111111111111111111111111111">>,
     <<"prefix", RAYDIUM_AUTHORITY>>}

\* raw amounts; 1 of 800 is a percentage half-way between two hundredths
HolderAmounts == {0, 1, 3, 799}

\* the positions of a list that carry the other address
HolderSpots == {1, TOP_N, TOP_N + 1}

\* what the supply read returned: nothing (failure), or a supply
SupplyInfos ==
    {NoneV} \cup {SupplyValue(AmountStr(s)) : s \in {0, 5, 800, 10000}}

\* a list of n accounts as getTokenLargestAccounts orders them, largest first:
\* the first k hold hi and the others lo <= hi
LargestAccounts(n, k, hi, lo, base, spots, other) ==
    [i \in 1..n |->
        TokenAccount(IF i \in spots THEN other ELSE base,
                     AmountStr(IF i <= k THEN hi ELSE lo))]

\* lines 59-112 run on a non-empty list of accounts
HdCall ==
    /\ fnPc = "idle"
    /\ \E n \in 1..MaxAccounts, k \in {0, 1, TOP_N},
          hi \in HolderAmounts, lo \in HolderAmounts,
          base \in HolderAddresses \ {<<"prefix", RAYDIUM_AUTHORITY>>},
          spots \in SUBSET HolderSpots, other \in HolderAddresses,
          supply_info \in SupplyInfos :
        /\ lo <= hi
        /\ \E largest_accounts \in {LargestAccounts(n, k, hi, lo, base, spots, other)} :
           \E out \in {HolderDistribution(largest_accounts, supply_info)} :
            /\ fnIn' = [largest_accounts |-> largest_accounts,
                        supply_info |-> supply_info]
            /\ fnOut' = out
    /\ fnPc' = "done"
    /\ UNCHANGED <<clockVars, notCall>>

\* the caller has the distribution; the next call may start
HdReturn ==
    /\ fnPc = "done"
    /\ fnPc' = "idle"
    /\ fnIn' = None
    /\ fnOut' = None
    /\ UNCHANGED <<clockVars, notCall>>

NextHolders == HdCall \/ HdReturn

SpecHolders == Init /\ [][NextHolders]_vars

-----------------------------------------------------------------------------
(* Claims checked under SpecHolders.                                       *)

\* the supply read failed or returned zero
SupplyMissing(supply_info) ==
    \/ ~Truthy(supply_info)
    \/ AmountOf(supply_info.amount) = 0

\* the total supply the percentages of a run are taken of
SupplyUsed(in) ==
    IF SupplyMissing(in.supply_info)
    THEN SumAmounts(in.largest_accounts, "all")
    ELSE AmountOf(in.supply_info.amount)

\* the sum of the amounts of the entries of holder_data[from..] whose flag is lp
RECURSIVE BucketAmount(_, _, _)
BucketAmount(holder_data, from, lp) ==
    IF from > Len(holder_data) THEN 0
    ELSE (IF holder_data[from].is_lp_or_locked = lp
          THEN holder_data[from].amount ELSE 0)
         + BucketAmount(holder_data, from + 1, lp)

C26_FallbackIsSumOfTenLargest ==
    (fnPc = "done" /\ fnOut.kind = "return" /\ SupplyMissing(fnIn.supply_info)) =>
        LET ten == SumAmounts(PySliceTo(fnIn.largest_accounts, 10), "all")
            value == fnOut.value
        IN  IF ten = 0 THEN value = DefaultHolders
            ELSE /\ value # DefaultHolders
                 /\ value.top_10_percent
                        = Percent(BucketAmount(value.holder_data, 1, FALSE), ten)
                 /\ value.lp_locked_percent
                        = Percent(BucketAmount(value.holder_data, 1, TRUE), ten)
                 /\ \A i \in DOMAIN value.holder_data :
                        value.holder_data[i].percentage
                            = Percent(value.holder_data[i].amount, ten)

-----------------------------------------------------------------------------
(* Claim about the backoff sleeps, under SpecRetry.                        *)

\* C27: a backoff sleep is taken only before a retry: a call sleeps only while an
\* attempt is left to follow the sleep, so a call that has ended after three 429
\* responses has slept 1 s and 2 s, 3 s in total, and has the failure result.
C27_SleepOnlyBeforeRetry ==
    /\ rlPc = "sleeping" => Len(rlLog) < MaxAttempts
    /\ (rlPc = "done" /\ Len(rlLog) = MaxAttempts /\ Is429(rlLog[MaxAttempts])) =>
            /\ rlSleeps = <<1, 2>>
            /\ rlResult = [kind |-> "return", value |-> FailureResult(rlCall)]

-----------------------------------------------------------------------------
(* Specification SpecCached: callers of the three cached reads             *)
(* (get_token_metadata, get_holder_distribution, get_latest_solana_tokens) *)
(* that run concurrently on the event loop, while upstream is up, answers  *)
(* HTTP 500, or is unreachable, and the clock moves.  The three caches are *)
(* separate objects with separate keys: a behaviour exercises one of them. *)

Services == {"metadata", "holders", "latest"}

\* the time-to-live of the cache of a service
TtlOf(service) ==
    CASE service = "metadata" -> METADATA_TTL
      [] service = "holders" -> HOLDER_TTL
      [] OTHER -> cache_ttl_seconds

\* the key the callers use with a service: the mint address, or the limit and floor
KeyOf(service) ==
    IF service = "latest" THEN TokenCacheKey(1, default_min_liquidity) ELSE "A"

\* what upstream answers while a call fetches:
\*   "up"           the token A is boosted and listed, its on-chain reads succeed
\*   "down"         every listing and every on-chain read answers HTTP 500
\*   "unreachable"  every connection fails
UpstreamStates == {"up", "down", "unreachable"}

CachedUpstream(state) ==
    LET world(b, pk, ck) ==
            Upstream([boosted |-> b, profiles |-> <<>>,
                      pairs |-> [a \in PlAddrs |-> pk],
                      onchain |-> [a \in PlAddrs |-> ck]])
    IN  CASE state = "up" ->
                world(<<TokenProfile("solana", "A", ListingNames["boosted"][1])>>,
                      "listed", "clean")
          [] state = "down" ->
                [world(<<>>, "unlisted", "unavailable") EXCEPT
                    !.boosted = Response(500, InvalidJson),
                    !.profiles = Response(500, InvalidJson)]
          [] OTHER ->
                [world(<<>>, "unreachable", "account_error") EXCEPT
                    !.boosted = ClientError,
                    !.profiles = ClientError,
                    !.largest = [a \in PlAddrs |-> LargestScript("holders_error")]]

\* the cache of a service
CacheOfService(service) ==
    CASE service = "metadata" -> metadata_cache
      [] service = "holders" -> holder_cache
      [] OTHER -> token_cache

\* what a call of a service returns on a hit: cache[cache_key], and for the
\* listings its "tokens"
FromCache(service, cache, cache_key) ==
    [kind |-> "return",
     value |-> IF service = "latest" THEN cache[cache_key].tokens
               ELSE cache[cache_key].value,
     hit |-> TRUE, requests |-> 0]

\* what a call of a service does after a miss, against upstream up: the fetch, the
\* write to the cache and the return, or the exception
FromFetch(service, cache, cache_key, up) ==
    CASE service = "metadata" ->
            CHOOSE x \in
                {StoreAndReturn(cache, cache_key, r, METADATA_TTL) :
                    r \in {MetadataFetch(up.account[cache_key])}} : TRUE
      [] service = "holders" ->
            CHOOSE x \in
                {StoreAndReturn(cache, cache_key, r, HOLDER_TTL) :
                    r \in {HoldersFetch(up.largest[cache_key],
                                        up.supply[cache_key])}} : TRUE
      [] OTHER ->
            CHOOSE x \in
                {IF o.kind = "raise" THEN o ELSE [value |-> o.tokens] @@ o :
                    o \in {LatestFromFetch(cache, cache_key,
                                FetchLatest(cache_key[1], cache_key[2], up))}} : TRUE

\* the service the callers have used so far, if any
ServiceInUse(service) ==
    \E c \in Callers : glPc[c] # "idle" /\ glCall[c].service = service

notCached ==
    <<scorerVars, retryVars, mtPc, mtAddr, mtResult, mtRequests, requestVars, callVars>>

\* the first lines of the three functions: the call is made; the cache test, and
\* the return on a hit
CcCall(c, service) ==
    /\ glPc[c] \in {"idle", "done"}      \* the caller has no call under way
    /\ glCalls < MaxCalls
    /\ glCalls = 0 \/ ServiceInUse(service)
    /\ glCalls' = glCalls + 1
    /\ glCall' = [glCall EXCEPT ![c] =
                    [service |-> service, key |-> KeyOf(service), at |-> now,
                     writes_before |-> Len(glWrites)]]
    /\ IF CacheHas(CacheOfService(service), KeyOf(service))
       THEN /\ glPc' = [glPc EXCEPT ![c] = "done"]
            /\ glOut' = [glOut EXCEPT ![c] =
                            FromCache(service, CacheOfService(service), KeyOf(service))]
       ELSE /\ glPc' = [glPc EXCEPT ![c] = "fetching"]
            /\ glOut' = [glOut EXCEPT ![c] = None]
    /\ UNCHANGED <<metadata_cache, cacheVars, glWrites, clockVars, notCached>>

\* the reads of the call end: the result is stored and returned, or an exception
\* leaves the call
CcFetched(c) ==
    /\ glPc[c] = "fetching"
    /\ \E state \in UpstreamStates :
        \E out \in {FromFetch(glCall[c].service, CacheOfService(glCall[c].service),
                              glCall[c].key, CachedUpstream(state))} :
            /\ glOut' = [glOut EXCEPT ![c] =
                            IF out.kind = "raise"
                            THEN [kind |-> "raise", requests |-> out.requests]
                            ELSE [kind |-> "return", value |-> out.value,
                                  hit |-> FALSE, requests |-> out.requests]]
            /\ metadata_cache' = IF glCall[c].service = "metadata"
                                 THEN out.cache ELSE metadata_cache
            /\ holder_cache' = IF glCall[c].service = "holders"
                               THEN out.cache ELSE holder_cache
            /\ token_cache' = IF glCall[c].service = "latest"
                              THEN out.cache ELSE token_cache
            /\ glWrites' = IF out.kind = "raise" THEN glWrites
                           ELSE Append(glWrites,
                                       [service |-> glCall[c].service,
                                        key |-> glCall[c].key, at |-> now,
                                        value |-> out.value, by |-> c,
                                        upstream |-> state])
    /\ glPc' = [glPc EXCEPT ![c] = "done"]
    /\ UNCHANGED <<glCall, glCalls, clockVars, notCached>>

\* time passes: a second, or all but a second of the time-to-live of a cache
CcTick ==
    /\ \E service \in Services : ServiceInUse(service) /\ Tick(TtlOf(service))
    /\ UNCHANGED <<metadata_cache, cacheVars, marketVars, notCached>>

NextCached ==
    \/ \E c \in Callers, service \in Services : CcCall(c, service)
    \/ \E c \in Callers : CcFetched(c)
    \/ CcTick

SpecCached == Init /\ [][NextCached]_vars

-----------------------------------------------------------------------------
(* Claim checked under SpecCached.                                         *)

\* write k stored what a call returned after its read had failed: the defaults,
\* or the empty list
StoredAfterFailedRead(k) ==
    /\ glWrites[k].upstream = "down"
    /\ glWrites[k].value = (CASE glWrites[k].service = "metadata" -> DefaultMetadata
                              [] glWrites[k].service = "holders" -> DefaultHolders
                              [] OTHER -> <<>>)

\* the call of caller c was made after write k, with the service and key of the
\* write and within the time-to-live of that cache
CalledWithinTtlOf(c, k) ==
    /\ k <= glCall[c].writes_before
    /\ glWrites[k].service = glCall[c].service
    /\ glWrites[k].key = glCall[c].key
    /\ glCall[c].at < glWrites[k].at + TtlOf(glCall[c].service)

\* the call of caller c has returned what write k stored, without a request
ReturnedWrite(c, k) ==
    /\ glPc[c] = "done"
    /\ glOut[c].kind = "return"
    /\ glOut[c].hit
    /\ glOut[c].value = glWrites[k].value
    /\ glOut[c].requests = 0

\* C29 as stated: after a call returned the defaults (or the empty list) because
\* its read failed, every further call with the same key within the TTL of that
\* cache returns the same result without any upstream request.
C29_FailedReadServedAgain ==
    \A c \in Callers :
        glPc[c] # "idle" =>
            \A k \in DOMAIN glWrites :
                (StoredAfterFailedRead(k) /\ CalledWithinTtlOf(c, k))
                    => ReturnedWrite(c, k)

\* C29 amended: every such call is served from the cache without any upstream
\* request, and it returns the latest write to its key made before it: the result
\* of the failed read, unless another call that had missed stored the key after it.
C29_FailedReadServedFromLatestWrite ==
    \A c \in Callers :
        glPc[c] # "idle" =>
            \A k \in DOMAIN glWrites :
                (StoredAfterFailedRead(k) /\ CalledWithinTtlOf(c, k)) =>
                    /\ glPc[c] = "done"
                    /\ glOut[c].kind = "return"
                    /\ glOut[c].hit
                    /\ glOut[c].requests = 0
                    /\ \E l \in k..glCall[c].writes_before : ReturnedWrite(c, l)
                    /\ (\A l \in (k + 1)..glCall[c].writes_before :
                            \/ glWrites[l].service # glCall[c].service
                            \/ glWrites[l].key # glCall[c].key)
                        => ReturnedWrite(c, k)

\* C29 witness: a call made a second before the entry expires has been served the
\* defaults that a failed read had stored.
C29_Witness ==
    \E c \in Callers, k \in DOMAIN glWrites :
        /\ glPc[c] = "done"
        /\ StoredAfterFailedRead(k)
        /\ CalledWithinTtlOf(c, k)
        /\ glCall[c].at = glWrites[k].at + TtlOf(glCall[c].service) - 1
        /\ glCall[c].service = "holders"
        /\ ReturnedWrite(c, k)

====
